---- MODULE Spec2Model ----
(***************************************************************************)
(* Model of the completion retry engine of src/server/tasks/               *)
(* queryModel.task.ts: the queryModel task handler, queueQueryModel and    *)
(* calculateDelay, for one ScenarioVariantCell and a bounded number of     *)
(* queueQueryModel calls (each enqueues one queryModel job).               *)
(*                                                                         *)
(* Every await of the handler is one action: between two awaits the        *)
(* JavaScript code runs without interleaving, so a step is "the awaited    *)
(* operation takes effect, then the code runs up to the next await".       *)
(*                                                                         *)
(* The module also models the node pipeline: processEntry and              *)
(* beforeProcessing of the LLM relabel node (llmRelabelProperties.ts,      *)
(* SpecRelabel), updateCached (SpecCache), updateRelabelingModel           *)
(* (archives.router.ts) and the Pipeline Driver that invokes a node        *)
(* (SpecNode, SpecNodeFair, and SpecBatch for nodes with many entries).    *)
(***************************************************************************)
EXTENDS Integers, Sequences, FiniteSets, TLC

(* ------------------------------------------------------------------ *)
(* Program constants (queryModel.task.ts:17-19)                        *)
(* ------------------------------------------------------------------ *)
MAX_AUTO_RETRIES == 10
MIN_DELAY == 500
MAX_DELAY == 15000

(* ------------------------------------------------------------------ *)
(* Bounds of the model                                                 *)
(* ------------------------------------------------------------------ *)
\* number of queueQueryModel calls, hence of queryModel jobs
MaxJobs == 2
\* in Spec, Math.random() is drawn from {0/JitterDen, ..., (JitterDen-1)/JitterDen}
JitterDen == 2
\* in SpecDelay, Math.random() is drawn from the fractions num/den, den <= MaxDen
MaxDen == 4
\* partial outputs the provider produces in one run, all jobs together
MaxPartials == 2
\* auto-retryable failures the provider gives each job of a run that has more
\* than one job (the job of a run with one call may be failed without bound)
MaxSharedRetries == 1
\* largest numPreviousTries calculateDelay is applied to in SpecDelay
MaxAttemptIdx == 20
\* node entries of the model
MaxEntries == 3
\* NodeEntry rows and CachedProcessedEntry rows in SpecCache
MaxCacheEntries == 2
MaxRecords == 2
\* nodes of the pipeline in SpecNode: node 1 and the nodes downstream of it
MaxNodes == 2
\* largest maxLLMConcurrency of a node
MaxConcurrency == 2
\* requests (enqueueProcessNode, updateRelabelingModel) made in one run
MaxRequests == 2
\* rate-limit answers the model gives in one run
MaxRateLimits == 1
\* PENDING entries of the node in SpecBatch: two full reads and one more
MaxPending == 101
MaxBytes == 4             \* bytes of the blob streamToNdStrings reads
MaxLines == 2             \* its maxEntriesToImport goes up to this
MaxParts == 2             \* parts of the file uploadDatasetEntryFileToS3 uploads
MaxReplaces == 2          \* replaceVariant calls, which may overlap

Jobs == 1..MaxJobs

\* a nullable column or value: NULL, or Some(v)
NULL == <<>>
Some(v) == <<v>>

Min(a, b) == IF a <= b THEN a ELSE b

(* ------------------------------------------------------------------ *)
(* calculateDelay                                                      *)
(* ------------------------------------------------------------------ *)
\* mutant: the cap MAX_DELAY is not applied
baseDelayUncapped(numPreviousTries) == MIN_DELAY * 2^numPreviousTries

\* Math.min(MAX_DELAY, MIN_DELAY * Math.pow(2, numPreviousTries))
baseDelay(numPreviousTries) == Min(MAX_DELAY, MIN_DELAY * 2^numPreviousTries)

\* the values Math.random() takes: the fractions <<num, den>> = num/den of [0, 1)
Randoms(den) == {<<num, den>> : num \in 0..(den - 1)}

\* Math.random() * baseDelay, for Math.random() = rnd
jitter(numPreviousTries, rnd) == (rnd[1] * baseDelay(numPreviousTries)) \div rnd[2]

calculateDelay(numPreviousTries, rnd) ==
    baseDelay(numPreviousTries) + jitter(numPreviousTries, rnd)

(* ------------------------------------------------------------------ *)
(* The model provider collaborator's responses                        *)
(* ------------------------------------------------------------------ *)
SuccessResponse ==
    [type |-> "success", statusCode |-> 200, message |-> "", autoRetry |-> FALSE]
RateLimited ==
    [type |-> "error", statusCode |-> 429, message |-> "rate limited", autoRetry |-> TRUE]
ServerError ==
    [type |-> "error", statusCode |-> 500, message |-> "server error", autoRetry |-> FALSE]
Responses == {SuccessResponse, RateLimited, ServerError}

\* no response: the value of `response` outside an iteration of the loop
NoResponse == [type |-> "none", statusCode |-> 0, message |-> "", autoRetry |-> FALSE]

VARIABLES
    cellExists,     \* the ScenarioVariantCell row exists
    cell,           \* its columns: retrievalStatus, statusCode, errorMessage, retryTime
    variantFound,   \* the PromptVariant row of the cell exists
    scenarioFound,  \* the TestScenario row of the cell exists
    promptError,    \* parseConstructFn yields {error}
    written,        \* written[j]: the status update of the j-th queueQueryModel call landed
    pc,             \* pc[j]: position of job j in the handler
    stream,         \* stream[j]: the job's payload flag
    i,              \* i[j]: the loop counter
    response,       \* response[j]: the response of the current iteration
    nCalls,         \* nCalls[j]: provider.getCompletion calls the job has made
    calls,          \* queueQueryModel calls made in this run (a bound of the model)
    produced,       \* the partial outputs the provider produced, in order
    picked,         \* picked[j]: cell.retrievalStatus the job read at pickup
    rlog,           \* rlog[j]: the responses the job received, in order
    wlog,           \* wlog[j]: the cell updates the job made, in order
    created,        \* created[j]: ModelOutput rows the job created
    evals,          \* evals[j]: runEvalsForOutput calls of the job
    channel,        \* messages emitted on the cell's channel, in order
    delayArgs,      \* SpecDelay: the arguments of the last calculateDelay call
    delay,          \* SpecDelay: its result
    peArgs,         \* SpecRelabel: the arguments of the last processEntry call
    peResult,       \* SpecRelabel: what it returned, and whether it called the model
    entries,        \* the NodeEntry rows, by id
    cache,          \* the CachedProcessedEntry rows
    hashCall,       \* SpecHash: two nodes and the hashes computed for them
    ucCall,         \* SpecCache: the node of the last updateCached call, the rows before it
    nodes,          \* the Node rows, by id: config (relabelLLM, maxLLMConcurrency) and hash
    queued,         \* queued[n]: the processNode job waiting for node n, if any
    drv,            \* drv[n]: the Driver's invocation for node n
    router,         \* the node updateRelabelingModel has updated and not yet enqueued
    budget,         \* requests made and rate-limit answers given so far
    owed,           \* entries that were PENDING when a request met their node in progress
    sweep,          \* SpecBatch: the batches of one invocation, by numbers of entries
    reader,         \* SpecStream: the stream and the closure of one streamToNdStrings call
    upload,         \* SpecUpload: one uploadDatasetEntryFileToS3 call and the requests it made
    variants        \* SpecVariants: the PromptVariant rows and the replaceVariant calls

vars == <<cellExists, cell, variantFound, scenarioFound, promptError, written, pc,
          stream, i, response, nCalls, calls, produced, picked, rlog, wlog, created,
          evals, channel, delayArgs, delay, peArgs, peResult, entries, cache, ucCall,
          nodes, queued, drv, router, budget, owed, sweep, hashCall, reader, upload,
          variants>>

\* the state of the calls outside the engine and the node pipeline
clients == <<reader, upload, variants>>

\* the state of the node pipeline, which the completion retry engine leaves alone
pipeline == <<peArgs, peResult, entries, cache, ucCall, nodes, queued, drv, router,
              budget, owed, sweep, hashCall, clients>>

\* the Driver's state, which the calls of single functions leave alone
driver == <<nodes, queued, drv, router, budget, owed, sweep>>

\* the engine and the calls of single functions
core == <<cellExists, cell, variantFound, scenarioFound, promptError, written, pc,
          stream, i, response, nCalls, calls, produced, picked, rlog, wlog, created,
          evals, channel, delayArgs, delay, peArgs, peResult, ucCall, hashCall>>

\* what the node pipeline leaves alone
rest == <<core, clients>>

\* what the calls outside the engine and the node pipeline leave alone
server == <<core, driver, entries, cache>>

env == <<cellExists, variantFound, scenarioFound, promptError, calls, delayArgs, delay,
         pipeline>>
locals == <<stream, i, response, nCalls, picked, rlog>>

\* a cell is created PENDING with the other columns null
NewCell ==
    [retrievalStatus |-> "PENDING", statusCode |-> NULL, errorMessage |-> NULL,
     retryTime |-> NULL]

\* no call outside the engine and the node pipeline was made
ClientsIdle == reader = NULL /\ upload = NULL /\ variants = NULL

\* the node pipeline before anything happened in it
PipelineIdle ==
    /\ peArgs = NULL
    /\ peResult = NULL
    /\ entries = <<>>
    /\ cache = {}
    /\ ucCall = NULL
    /\ nodes = <<>>
    /\ queued = <<>>
    /\ drv = <<>>
    /\ router = NULL
    /\ budget = [requests |-> 0, rateLimits |-> 0]
    /\ owed = {}
    /\ sweep = NULL
    /\ hashCall = NULL

\* the completion retry engine before anything happened in it
EngineInit ==
    /\ cellExists \in BOOLEAN
    /\ cell = NewCell
    /\ variantFound \in BOOLEAN
    /\ scenarioFound \in BOOLEAN
    /\ promptError \in BOOLEAN
    /\ written = [j \in Jobs |-> FALSE]
    /\ pc = [j \in Jobs |-> "none"]
    /\ stream = [j \in Jobs |-> FALSE]
    /\ i = [j \in Jobs |-> 0]
    /\ response = [j \in Jobs |-> NoResponse]
    /\ nCalls = [j \in Jobs |-> 0]
    /\ calls \in Jobs
    /\ produced = <<>>
    /\ picked = [j \in Jobs |-> "none"]
    /\ rlog = [j \in Jobs |-> <<>>]
    /\ wlog = [j \in Jobs |-> <<>>]
    /\ created = [j \in Jobs |-> 0]
    /\ evals = [j \in Jobs |-> 0]
    /\ channel = <<>>
    /\ delayArgs = NULL
    /\ delay = NULL

Init == EngineInit /\ PipelineIdle /\ ClientsIdle

\* the engine at rest, for the specifications of the node pipeline
EngineIdle ==
    /\ EngineInit
    /\ cellExists /\ variantFound /\ scenarioFound /\ ~promptError
    /\ calls = 1


(* ------------------------------------------------------------------ *)
(* The persistence collaborator                                        *)
(* ------------------------------------------------------------------ *)
\* prisma.scenarioVariantCell.update({ where: { id }, data }): the columns named
\* in `data` take its values, the others are left alone
update(row, data) ==
    [f \in DOMAIN row |-> IF f \in DOMAIN data THEN data[f] ELSE row[f]]

\* what wlog records of an update: its data, with retryTime as null-or-set
Logged(data) ==
    IF "retryTime" \in DOMAIN data
    THEN [data EXCEPT !.retryTime = IF @ = NULL THEN "null" ELSE "set"]
    ELSE data

\* job j's update of the cell takes effect
CellUpdate(j, data) ==
    /\ cell' = update(cell, data)
    /\ wlog' = [wlog EXCEPT ![j] = Append(@, Logged(data))]

(* ------------------------------------------------------------------ *)
(* queueQueryModel(cellId, stream)                                     *)
(* ------------------------------------------------------------------ *)
\* The j-th call. The array handed to Promise.all holds the cell update, not
\* awaited, and `await queryModel.enqueue(...)`: the enqueue has completed
\* before Promise.all is reached, while the update takes effect whenever the
\* client gets to it: sent when it is created, it races with the enqueue; sent
\* when Promise.all subscribes to it, it follows the enqueue. Both are kept:
\* the update, the enqueue and then the job's steps land in any order.
Started(j) == written[j] \/ pc[j] # "none"
MayStart(j) == j <= calls /\ (IF j = 1 THEN TRUE ELSE Started(j - 1))

\* mutant: the update clears the whole cell
queueDataClearingAll ==
    [retrievalStatus |-> "PENDING", errorMessage |-> NULL, statusCode |-> NULL,
     retryTime |-> NULL]

\* the update's data: retrievalStatus PENDING, errorMessage null
queueData == [retrievalStatus |-> "PENDING", errorMessage |-> NULL]

QueueWrite(j) ==
    /\ ~written[j]
    /\ MayStart(j)
    /\ written' = [written EXCEPT ![j] = TRUE]
    \* an update of a row that does not exist rejects and changes nothing
    /\ cell' = IF cellExists THEN update(cell, queueData) ELSE cell
    /\ UNCHANGED <<env, pc, locals, wlog, created, evals, produced, channel>>

QueueEnqueue(j) ==
    /\ pc[j] = "none"
    /\ MayStart(j)
    /\ \E s \in BOOLEAN : stream' = [stream EXCEPT ![j] = s]
    /\ pc' = [pc EXCEPT ![j] = "queued"]
    /\ UNCHANGED <<env, cell, written, i, response, nCalls, picked, rlog,
                   wlog, created, evals, produced, channel>>

(* ------------------------------------------------------------------ *)
(* queryModel: pickup and guard                                        *)
(* ------------------------------------------------------------------ *)
Goto(j, label) == pc' = [pc EXCEPT ![j] = label]

\* mutant: the guard lets through every cell but a COMPLETE one
notPendingOnlyComplete(status) == status = "COMPLETE"

\* the guard of line 47
notPending(status) == status # "PENDING"

\* findUnique of the cell, then the guard
Pickup(j) ==
    /\ pc[j] = "queued"
    /\ IF ~cellExists
       THEN /\ picked' = [picked EXCEPT ![j] = "missing"]
            /\ Goto(j, "cellMissing")
       ELSE /\ picked' = [picked EXCEPT ![j] = cell.retrievalStatus]
            /\ IF notPending(cell.retrievalStatus)
               THEN Goto(j, "done")
               ELSE Goto(j, "markInProgress")
    /\ UNCHANGED <<env, cell, written, stream, i, response, nCalls, rlog,
                   wlog, created, evals, produced, channel>>

\* lines 35-42: the update names a row that does not exist, so it rejects and
\* the handler ends with that exception; no row is written
CellMissing(j) ==
    /\ pc[j] = "cellMissing"
    /\ Goto(j, "failed")
    /\ UNCHANGED <<env, cell, written, locals, wlog, created, evals, produced, channel>>

MarkInProgress(j) ==
    /\ pc[j] = "markInProgress"
    /\ CellUpdate(j, [retrievalStatus |-> "IN_PROGRESS"])
    /\ Goto(j, "findVariant")
    /\ UNCHANGED <<env, written, locals, created, evals, produced, channel>>

(* ------------------------------------------------------------------ *)
(* queryModel: variant, scenario, prompt                               *)
(* ------------------------------------------------------------------ *)
\* mutant: a missing row is reported as a server error
notFoundDataAs500(msg) ==
    [statusCode |-> Some(500), errorMessage |-> Some(msg), retrievalStatus |-> "ERROR"]

notFoundData(msg) ==
    [statusCode |-> Some(404), errorMessage |-> Some(msg), retrievalStatus |-> "ERROR"]

FindVariant(j) ==
    /\ pc[j] = "findVariant"
    /\ Goto(j, IF variantFound THEN "findScenario" ELSE "variantMissing")
    /\ UNCHANGED <<env, cell, written, locals, wlog, created, evals, produced, channel>>

VariantMissing(j) ==
    /\ pc[j] = "variantMissing"
    /\ CellUpdate(j, notFoundData("Prompt Variant not found"))
    /\ Goto(j, "done")
    /\ UNCHANGED <<env, written, locals, created, evals, produced, channel>>

FindScenario(j) ==
    /\ pc[j] = "findScenario"
    /\ Goto(j, IF scenarioFound THEN "parsePrompt" ELSE "scenarioMissing")
    /\ UNCHANGED <<env, cell, written, locals, wlog, created, evals, produced, channel>>

ScenarioMissing(j) ==
    /\ pc[j] = "scenarioMissing"
    /\ CellUpdate(j, notFoundData("Scenario not found"))
    /\ Goto(j, "done")
    /\ UNCHANGED <<env, written, locals, created, evals, produced, channel>>

\* the error parseConstructFn yields when promptError holds: prompt.error
constructionError == "prompt error"

\* mutant: the error of the construction is not looked at
ParsePromptIgnoringError(j) ==
    /\ pc[j] = "parsePrompt"
    /\ Goto(j, "getCompletion") /\ nCalls' = [nCalls EXCEPT ![j] = @ + 1]
    /\ UNCHANGED <<env, cell, written, stream, i, response, picked, rlog,
                   wlog, created, evals, produced, channel>>

\* parseConstructFn resolves; without an error the loop starts and its first
\* statement calls provider.getCompletion
ParsePrompt(j) ==
    /\ pc[j] = "parsePrompt"
    /\ IF promptError
       THEN Goto(j, "promptInvalid") /\ UNCHANGED nCalls
       ELSE Goto(j, "getCompletion") /\ nCalls' = [nCalls EXCEPT ![j] = @ + 1]
    /\ UNCHANGED <<env, cell, written, stream, i, response, picked, rlog,
                   wlog, created, evals, produced, channel>>

PromptInvalid(j) ==
    /\ pc[j] = "promptInvalid"
    /\ CellUpdate(j, [statusCode |-> Some(400), errorMessage |-> Some(constructionError),
                      retrievalStatus |-> "ERROR"])
    /\ Goto(j, "done")
    /\ UNCHANGED <<env, written, locals, created, evals, produced, channel>>


(* ------------------------------------------------------------------ *)
(* queryModel: the retry loop                                          *)
(* ------------------------------------------------------------------ *)
\* mutant: the newest message is delivered first
emitFirst(payload) == <<payload>> \o channel

\* wsConnection.emit("message", { channel: cell.id, payload: partialOutput })
emit(payload) == Append(channel, payload)

\* onStream: the emitting callback if the job asked for streaming, else null
onStream(j, partialOutput) == IF stream[j] THEN emit(partialOutput) ELSE channel

\* during getCompletion the provider produces a partial output and hands it to
\* the callback it was given
ProducedBy(j) == Len(SelectSeq(produced, LAMBDA p : p.job = j))

\* the next partial output of job j's provider calls
partialOutput(j) == [job |-> j, kind |-> "partial", seq |-> ProducedBy(j) + 1]

ProviderPartial(j) ==
    /\ pc[j] = "getCompletion"
    /\ Len(produced) < MaxPartials
    /\ produced' = Append(produced, partialOutput(j))
    /\ channel' = onStream(j, partialOutput(j))
    /\ UNCHANGED <<env, cell, written, pc, stream, i, response, nCalls, picked, rlog,
                   wlog, created, evals>>

\* the responses the provider may give job j on its call number idx + 1
MayAnswer(j, idx) ==
    {r \in Responses : r.autoRetry => (calls = 1 \/ idx < MaxSharedRetries)}

\* getCompletion resolves with r
ProviderReturn(j, r) ==
    /\ pc[j] = "getCompletion"
    /\ r \in MayAnswer(j, i[j])
    /\ response' = [response EXCEPT ![j] = r]
    /\ rlog' = [rlog EXCEPT ![j] = Append(@, r)]
    /\ Goto(j, IF r.type = "success" THEN "createOutput" ELSE "updateError")
    /\ UNCHANGED <<env, cell, written, stream, i, nCalls, picked, wlog,
                   created, evals, produced, channel>>

\* mutant: the ModelOutput row is not created
CreateOutputSkipped(j) ==
    /\ pc[j] = "createOutput"
    /\ Goto(j, "markComplete")
    /\ UNCHANGED <<env, cell, written, locals, wlog, created, evals, produced, channel>>

\* prisma.modelOutput.create; the create is taken to succeed whatever rows exist
CreateOutput(j) ==
    /\ pc[j] = "createOutput"
    /\ created' = [created EXCEPT ![j] = @ + 1]
    /\ Goto(j, "markComplete")
    /\ UNCHANGED <<env, cell, written, locals, wlog, evals, produced, channel>>

completeData(r) == [statusCode |-> Some(r.statusCode), retrievalStatus |-> "COMPLETE"]

MarkComplete(j) ==
    /\ pc[j] = "markComplete"
    /\ CellUpdate(j, completeData(response[j]))
    /\ Goto(j, "runEvals")
    /\ UNCHANGED <<env, written, locals, created, evals, produced, channel>>

\* runEvalsForOutput, then break: the handler ends
RunEvals(j) ==
    /\ pc[j] = "runEvals"
    /\ evals' = [evals EXCEPT ![j] = @ + 1]
    /\ response' = [response EXCEPT ![j] = NoResponse]
    /\ Goto(j, "done")
    /\ UNCHANGED <<env, cell, written, stream, i, nCalls, picked, rlog,
                   wlog, created, produced, channel>>

\* mutant: the bound is inclusive
shouldRetryInclusive(r, idx) == r.autoRetry /\ idx <= MAX_AUTO_RETRIES

\* mutant: the bound is one short
shouldRetryOneShort(r, idx) == r.autoRetry /\ idx < MAX_AUTO_RETRIES - 1

\* mutant: autoRetry is not consulted
shouldRetryAnyFailure(r, idx) == idx < MAX_AUTO_RETRIES

\* response.autoRetry && i < MAX_AUTO_RETRIES
shouldRetry(r, idx) == r.autoRetry /\ idx < MAX_AUTO_RETRIES

\* mutant: a streaming job is never retried
retryingUnlessStream(j) == ~stream[j] /\ shouldRetry(response[j], i[j])

\* shouldRetry in job j's current iteration
retrying(j) == shouldRetry(response[j], i[j])

\* mutant: a scheduled retry puts the cell back to PENDING
errorDataRequeued(j, r, rnd) ==
    [errorMessage |-> Some(r.message),
     statusCode |-> Some(r.statusCode),
     retryTime |-> IF retrying(j) THEN Some(calculateDelay(i[j], rnd)) ELSE NULL,
     retrievalStatus |-> IF retrying(j) THEN "PENDING" ELSE "ERROR"]

\* the update of lines 140-148; retryTime is kept as its distance from Date.now()
errorData(j, r, rnd) ==
    [errorMessage |-> Some(r.message),
     statusCode |-> Some(r.statusCode),
     retryTime |-> IF retrying(j) THEN Some(calculateDelay(i[j], rnd)) ELSE NULL,
     retrievalStatus |-> "ERROR"]

UpdateError(j) ==
    /\ pc[j] = "updateError"
    /\ \E rnd \in Randoms(JitterDen) : CellUpdate(j, errorData(j, response[j], rnd))
    /\ IF retrying(j)
       THEN Goto(j, "sleep") /\ UNCHANGED response
       ELSE Goto(j, "done") /\ response' = [response EXCEPT ![j] = NoResponse]
    /\ UNCHANGED <<env, written, stream, i, nCalls, picked, rlog, created,
                   evals, produced, channel>>

\* sleep(delay) resolves, i++ and the next iteration calls the provider
Sleep(j) ==
    /\ pc[j] = "sleep"
    /\ i' = [i EXCEPT ![j] = @ + 1]
    /\ nCalls' = [nCalls EXCEPT ![j] = @ + 1]
    /\ response' = [response EXCEPT ![j] = NoResponse]
    /\ Goto(j, "getCompletion")
    /\ UNCHANGED <<env, cell, written, stream, picked, rlog, wlog, created,
                   evals, produced, channel>>

(* ------------------------------------------------------------------ *)
(* The specification                                                   *)
(* ------------------------------------------------------------------ *)
JobStep(j) ==
    \/ Pickup(j)
    \/ CellMissing(j)
    \/ MarkInProgress(j)
    \/ FindVariant(j)
    \/ VariantMissing(j)
    \/ FindScenario(j)
    \/ ScenarioMissing(j)
    \/ ParsePrompt(j)
    \/ PromptInvalid(j)
    \/ ProviderPartial(j)
    \/ \E r \in Responses : ProviderReturn(j, r)
    \/ CreateOutput(j)
    \/ MarkComplete(j)
    \/ RunEvals(j)
    \/ UpdateError(j)
    \/ Sleep(j)

Next ==
    \/ \E j \in Jobs : QueueWrite(j)
    \/ \E j \in Jobs : QueueEnqueue(j)
    \/ \E j \in Jobs : JobStep(j)

Spec == Init /\ [][Next]_vars

(* ------------------------------------------------------------------ *)
(* A cell with a history                                               *)
(* ------------------------------------------------------------------ *)
\* The cell as an earlier execution left it, the rows around it as they are
\* now: a variant or scenario may have been deleted, the scenario's values
\* edited, since that execution. CompletedAfterRetry is the cell after
\* IN_PROGRESS, one rate-limited call (ERROR, retry scheduled) and a
\* successful one: MarkComplete writes statusCode and retrievalStatus only.
CompletedAfterRetry ==
    update(update(NewCell,
                  [errorMessage |-> Some(RateLimited.message),
                   statusCode |-> Some(RateLimited.statusCode),
                   retryTime |-> Some(calculateDelay(0, <<0, JitterDen>>)),
                   retrievalStatus |-> "ERROR"]),
           completeData(SuccessResponse))

\* the cell after IN_PROGRESS and one call that failed for good
FailedForGood ==
    update(NewCell,
           [errorMessage |-> Some(ServerError.message),
            statusCode |-> Some(ServerError.statusCode),
            retryTime |-> NULL,
            retrievalStatus |-> "ERROR"])

RestingCells == {NewCell, CompletedAfterRetry, FailedForGood}

InitHistory ==
    /\ PipelineIdle /\ ClientsIdle
    /\ cell \in RestingCells
    /\ cellExists \in BOOLEAN
    /\ variantFound \in BOOLEAN
    /\ scenarioFound \in BOOLEAN
    /\ promptError \in BOOLEAN
    /\ written = [j \in Jobs |-> FALSE]
    /\ pc = [j \in Jobs |-> "none"]
    /\ stream = [j \in Jobs |-> FALSE]
    /\ i = [j \in Jobs |-> 0]
    /\ response = [j \in Jobs |-> NoResponse]
    /\ nCalls = [j \in Jobs |-> 0]
    /\ calls \in Jobs
    /\ produced = <<>>
    /\ picked = [j \in Jobs |-> "none"]
    /\ rlog = [j \in Jobs |-> <<>>]
    /\ wlog = [j \in Jobs |-> <<>>]
    /\ created = [j \in Jobs |-> 0]
    /\ evals = [j \in Jobs |-> 0]
    /\ channel = <<>>
    /\ delayArgs = NULL
    /\ delay = NULL

SpecHistory == InitHistory /\ [][Next]_vars

\* queueQueryModel is called once for a cell that is COMPLETE or ERROR. What
\* has been started goes on: the update of the call takes effect, the enqueue
\* completes, the job collaborator runs the job, and each operation the
\* handler awaits resolves.
InitRequeue ==
    /\ InitHistory
    /\ calls = 1
    /\ cell.retrievalStatus \in {"COMPLETE", "ERROR"}

Fairness ==
    \A j \in Jobs :
        WF_vars(QueueWrite(j)) /\ WF_vars(QueueEnqueue(j)) /\ WF_vars(JobStep(j))

SpecRequeue == InitRequeue /\ [][Next]_vars /\ Fairness

(* ------------------------------------------------------------------ *)
(* One execution on its own                                            *)
(* ------------------------------------------------------------------ *)
\* queueQueryModel has been called once and has completed: its update has
\* landed and its job waits. Nothing but the job runs from here, and each
\* operation the handler awaits resolves: the provider answers, the updates
\* take effect, the sleep ends.
InitSolo ==
    /\ PipelineIdle /\ ClientsIdle
    /\ cellExists \in BOOLEAN
    /\ cell = IF cellExists THEN update(NewCell, queueData) ELSE NewCell
    /\ variantFound \in BOOLEAN
    /\ scenarioFound \in BOOLEAN
    /\ promptError \in BOOLEAN
    /\ written = [j \in Jobs |-> j = 1]
    /\ pc = [j \in Jobs |-> IF j = 1 THEN "queued" ELSE "none"]
    /\ stream \in {[j \in Jobs |-> j = 1 /\ s] : s \in BOOLEAN}
    /\ i = [j \in Jobs |-> 0]
    /\ response = [j \in Jobs |-> NoResponse]
    /\ nCalls = [j \in Jobs |-> 0]
    /\ calls = 1
    /\ produced = <<>>
    /\ picked = [j \in Jobs |-> "none"]
    /\ rlog = [j \in Jobs |-> <<>>]
    /\ wlog = [j \in Jobs |-> <<>>]
    /\ created = [j \in Jobs |-> 0]
    /\ evals = [j \in Jobs |-> 0]
    /\ channel = <<>>
    /\ delayArgs = NULL
    /\ delay = NULL

NextSolo == \E j \in Jobs : JobStep(j)

SpecSolo == InitSolo /\ [][NextSolo]_vars /\ WF_vars(NextSolo)

(* ------------------------------------------------------------------ *)
(* calculateDelay on its own: any numPreviousTries, any Math.random()  *)
(* ------------------------------------------------------------------ *)
DelayCall ==
    /\ \E n \in 0..MaxAttemptIdx, den \in 1..MaxDen :
          \E rnd \in Randoms(den) :
             /\ delayArgs' = Some(<<n, rnd>>)
             /\ delay' = Some(calculateDelay(n, rnd))
    /\ UNCHANGED <<cellExists, cell, variantFound, scenarioFound, promptError, written,
                   pc, stream, i, response, nCalls, calls, produced, picked, rlog, wlog,
                   created, evals, channel, pipeline>>

InitDelay ==
    /\ Init
    /\ cellExists /\ variantFound /\ scenarioFound /\ ~promptError
    /\ calls = 1

SpecDelay == InitDelay /\ [][DelayCall]_vars

(* ================================================================== *)
(* The LLM relabel node kind (llmRelabelProperties.ts)                  *)
(* ================================================================== *)
\* RelabelOption: skip, or the model that relabels
SkipRelabel == "SkipRelabel"
RelabelModels == {"gpt-4", "gpt-3.5"}
RelabelOptions == {SkipRelabel} \cup RelabelModels

\* the messages a completion, an entry's output or an error may carry
Messages == {"m1", "m2"}
ErrorTexts == {"too many requests", "bad request"}
ErrorStatuses == {400, 429, 500}

\* what getOpenaiCompletion does when awaited: it resolves with a completion,
\* whose choices (none or one here) carry a message or none, or it rejects with
\* an error e: an APIError or another Error, with e.status and e.message
Completions ==
    {[kind |-> "completion", choices |-> c] :
        c \in {<<>>} \cup {<<[message |-> m]>> : m \in {NULL} \cup {Some(t) : t \in Messages}}}
Errors ==
    [isAPIError : BOOLEAN,
     status : {NULL} \cup {Some(c) : c \in ErrorStatuses},
     message : {NULL} \cup {Some(t) : t \in ErrorTexts}]
Rejections == {[kind |-> "rejects", error |-> e] : e \in Errors}
Outcomes == Completions \cup Rejections

\* new Error("No completion returned")
NoCompletionError ==
    [isAPIError |-> FALSE, status |-> NULL, message |-> Some("No completion returned")]

\* a ?? b
Coalesce(a, b) == IF a = NULL THEN b ELSE a[1]

\* completion.choices[0]?.message
firstMessage(completion) ==
    IF completion.choices = <<>> THEN NULL ELSE completion.choices[1].message

\* mutant: the class of the error is not looked at
isRateLimitByStatusOnly(e) == e.status = Some(429)

\* e instanceof APIError && e.status === 429
isRateLimit(e) == e.isAPIError /\ e.status = Some(429)

\* the catch block of processEntry
caught(entry, e) ==
    IF isRateLimit(e)
    THEN [status |-> "PENDING", error |-> Coalesce(e.message, "Rate limited")]
    ELSE [nodeEntryId |-> entry.id, status |-> "ERROR",
          error |-> Coalesce(e.message, "Unknown error")]

\* processEntry calls getOpenaiCompletion
callsModel(relabelLLM) == relabelLLM # SkipRelabel

\* processEntry({ node, entry }), for the outcome of getOpenaiCompletion should
\* it be called
processEntry(relabelLLM, entry, outcome) ==
    IF ~callsModel(relabelLLM)
    THEN [status |-> "PROCESSED", output |-> entry.output]
    ELSE IF outcome.kind = "rejects"
    THEN caught(entry, outcome.error)
    ELSE IF firstMessage(outcome) = NULL
    THEN caught(entry, NoCompletionError)
    ELSE [status |-> "PROCESSED", output |-> firstMessage(outcome)]

(* ------------------------------------------------------------------ *)
(* processEntry on its own: any option, any entry, any outcome         *)
(* ------------------------------------------------------------------ *)
EntryIds == 1..MaxEntries

ProcessEntryCall ==
    /\ \E relabelLLM \in RelabelOptions, id \in EntryIds,
          output \in {NULL} \cup {Some(t) : t \in Messages}, outcome \in Outcomes :
          LET entry == [id |-> id, output |-> output] IN
          /\ peArgs' = Some([relabelLLM |-> relabelLLM, entry |-> entry,
                             outcome |-> outcome])
          /\ peResult' = Some([result |-> processEntry(relabelLLM, entry, outcome),
                               called |-> callsModel(relabelLLM)])
    /\ UNCHANGED <<cellExists, cell, variantFound, scenarioFound, promptError, written,
                   pc, stream, i, response, nCalls, calls, produced, picked, rlog, wlog,
                   created, evals, channel, delayArgs, delay, entries, cache, ucCall,
                   hashCall, driver, clients>>

InitRelabel == EngineIdle /\ PipelineIdle /\ ClientsIdle

SpecRelabel == InitRelabel /\ [][ProcessEntryCall]_vars


(* ================================================================== *)
(* Cache propagation: updateCached                                     *)
(* ================================================================== *)
\* what a node kind declares. LLMRelabel is llmRelabelProperties; the other
\* three stand for the kinds of nodePropertiesByType that are defined
\* elsewhere: one that declares every field, one that matches on the
\* persistentId and writes the split only, and one that declares none
AllMatchFields == {"nodeEntryPersistentId", "incomingInputHash", "incomingOutputHash"}
AllWriteFields == {"outgoingInputHash", "outgoingOutputHash", "outgoingSplit"}

NodeTypes == {"LLMRelabel", "EveryField", "SplitOnly", "Uncached"}

\* cacheMatchFields and cacheWriteFields of llmRelabelProperties
llmRelabelCacheFields ==
    [cacheMatchFields |-> Some({"incomingInputHash"}),
     cacheWriteFields |-> Some({"outgoingOutputHash"})]

\* a kind that takes part with every field
everyFieldCacheFields ==
    [cacheMatchFields |-> Some(AllMatchFields),
     cacheWriteFields |-> Some(AllWriteFields)]

\* a kind whose cached result is the split of the entry
splitOnlyCacheFields ==
    [cacheMatchFields |-> Some({"nodeEntryPersistentId"}),
     cacheWriteFields |-> Some({"outgoingSplit"})]

\* a kind that always recomputes: it omits the fields
uncachedCacheFields == [cacheMatchFields |-> NULL, cacheWriteFields |-> NULL]

nodePropertiesByType(type) ==
    CASE type = "LLMRelabel" -> llmRelabelCacheFields
      [] type = "EveryField" -> everyFieldCacheFields
      [] type = "SplitOnly" -> splitOnlyCacheFields
      [] type = "Uncached" -> uncachedCacheFields

\* mutant: only the records keyed by the node's id are looked at
keyedByIdOnly(cpne, node) == cpne.nodeId = Some(node.id)

\* eb.or([eb("cpne.nodeHash", "=", node.hash), eb("cpne.nodeId", "=", node.id)]);
\* a null column equals nothing
keyedBy(cpne, node) == cpne.nodeHash = Some(node.hash) \/ cpne.nodeId = Some(node.id)

\* the whereRef conditions of the declared cache-match fields
refsAgree(ne, cpne, matchFields) ==
    /\ "nodeEntryPersistentId" \in matchFields => ne.persistentId = cpne.nodeEntryPersistentId
    /\ "incomingInputHash" \in matchFields => ne.inputHash = cpne.incomingInputHash
    /\ "incomingOutputHash" \in matchFields => ne.outputHash = cpne.incomingOutputHash

\* mutant: the status of the entry is not looked at
joinsAnyStatus(ne, cpne, node, matchFields) ==
    /\ keyedBy(cpne, node)
    /\ ne.nodeId = node.id
    /\ refsAgree(ne, cpne, matchFields)

\* the where clause of the update: row ne joins record cpne
joins(ne, cpne, node, matchFields) ==
    /\ keyedBy(cpne, node)
    /\ ne.nodeId = node.id
    /\ ne.status = "PENDING"
    /\ refsAgree(ne, cpne, matchFields)

\* mutant: originalOutputHash is read after outputHash has been set
rewrittenOriginalAfterWrite(ne, cpne, writeFields) ==
    [ne EXCEPT
        !.status = "PROCESSED",
        !.inputHash = IF "outgoingInputHash" \in writeFields
                      THEN cpne.outgoingInputHash ELSE @,
        !.outputHash = IF "outgoingOutputHash" \in writeFields
                       THEN cpne.outgoingOutputHash ELSE @,
        !.originalOutputHash = IF "outgoingOutputHash" \in writeFields
                               THEN Some(cpne.outgoingOutputHash) ELSE @,
        !.split = IF "outgoingSplit" \in writeFields THEN cpne.outgoingSplit ELSE @]

\* the set clauses of the update, applied to row ne joined with cpne: every
\* right-hand side is read from the row as it was before the update
rewritten(ne, cpne, writeFields) ==
    [ne EXCEPT
        !.status = "PROCESSED",
        !.inputHash = IF "outgoingInputHash" \in writeFields
                      THEN cpne.outgoingInputHash ELSE @,
        !.outputHash = IF "outgoingOutputHash" \in writeFields
                       THEN cpne.outgoingOutputHash ELSE @,
        !.originalOutputHash = IF "outgoingOutputHash" \in writeFields
                               THEN Some(ne.outputHash) ELSE @,
        !.split = IF "outgoingSplit" \in writeFields THEN cpne.outgoingSplit ELSE @]

\* the records row e joins
joined(rows, records, e, node, matchFields) ==
    {cpne \in records : joins(rows[e], cpne, node, matchFields)}

\* UPDATE ... FROM: a row that joins several records is rewritten from one of
\* them, which one is not determined; a row that joins none is left alone.
\* The tables the update may leave, for the rows ids
RECURSIVE updatedRows(_, _, _, _, _)
updatedRows(rows, records, ids, node, props) ==
    IF ids = {} THEN {rows}
    ELSE LET e == CHOOSE x \in ids : TRUE
             tables == updatedRows(rows, records, ids \ {e}, node, props)
             js == joined(rows, records, e, node, props.cacheMatchFields[1])
         IN  IF js = {} THEN tables
             ELSE {[t EXCEPT ![e] = rewritten(rows[e], cpne, props.cacheWriteFields[1])] :
                      t \in tables, cpne \in js}

\* mutant: the update is never executed
updateCachedNothing(rows, records, node) == {rows}

\* updateCached({ node }): the tables it may leave
updateCached(rows, records, node) ==
    LET nodeProperties == nodePropertiesByType(node.type) IN
    IF nodeProperties.cacheMatchFields # NULL /\ nodeProperties.cacheWriteFields # NULL
    THEN updatedRows(rows, records, DOMAIN rows, node, nodeProperties)
    ELSE {rows}

(* ------------------------------------------------------------------ *)
(* updateCached on its own: any rows, any records, any node            *)
(* ------------------------------------------------------------------ *)
CacheEntryIds == 1..MaxCacheEntries
NodeIds == {1, 2}
NodeHashes == {7, 8}

\* the rows: of either node, PENDING or PROCESSED, persistentId the row's id,
\* input and output hash 1 or 2
CacheRows ==
    {[nodeId |-> n, persistentId |-> 0, status |-> st, inputHash |-> h[1],
      outputHash |-> h[2], originalOutputHash |-> NULL, split |-> "TRAIN"] :
        n \in NodeIds, st \in {"PENDING", "PROCESSED"},
        h \in {<<1, 1>>, <<2, 1>>, <<1, 2>>}}

\* how the records are keyed: by a hash, by a node id, or by both
RecordKeys ==
    {<<Some(7), NULL>>, <<Some(8), NULL>>, <<NULL, Some(1)>>, <<NULL, Some(2)>>,
     <<Some(7), Some(1)>>}
\* what they match on: persistentId, incoming input hash, incoming output hash
RecordRefs == {<<1, 1, 1>>, <<2, 1, 1>>, <<1, 2, 1>>, <<1, 1, 2>>}

\* the records; what a record writes is its own, so that the record a row was
\* rewritten from shows in the row
Records ==
    {[nodeHash |-> k[1], nodeId |-> k[2],
      nodeEntryPersistentId |-> r[1], incomingInputHash |-> r[2],
      incomingOutputHash |-> r[3],
      outgoingInputHash |-> 100 + 10 * r[1] + r[2] + 2 * r[3]
                            + (IF k[1] = NULL THEN 0 ELSE 20 * k[1][1])
                            + (IF k[2] = NULL THEN 0 ELSE 400 * k[2][1]),
      outgoingOutputHash |-> 2000 + 10 * r[1] + r[2] + 2 * r[3]
                            + (IF k[1] = NULL THEN 0 ELSE 20 * k[1][1])
                            + (IF k[2] = NULL THEN 0 ELSE 400 * k[2][1]),
      outgoingSplit |-> IF r[1] = 1 THEN "TEST" ELSE "TRAIN"] :
        k \in RecordKeys, r \in RecordRefs}

InitCache ==
    /\ EngineIdle
    /\ peArgs = NULL /\ peResult = NULL
    /\ \E rows \in [CacheEntryIds -> CacheRows] :
          entries = [e \in CacheEntryIds |-> [rows[e] EXCEPT !.persistentId = e]]
    /\ cache \in {c \in SUBSET Records : Cardinality(c) <= MaxRecords}
    /\ ucCall = NULL
    /\ nodes = <<>> /\ queued = <<>> /\ drv = <<>> /\ router = NULL
    /\ budget = [requests |-> 0, rateLimits |-> 0] /\ owed = {} /\ sweep = NULL
    /\ hashCall = NULL
    /\ ClientsIdle

UpdateCachedCall ==
    /\ ucCall = NULL
    /\ \E id \in NodeIds, hash \in NodeHashes, type \in NodeTypes :
          LET node == [id |-> id, hash |-> hash, type |-> type] IN
          /\ entries' \in updateCached(entries, cache, node)
          /\ ucCall' = Some([node |-> node, entries |-> entries, cache |-> cache])
    /\ UNCHANGED <<cellExists, cell, variantFound, scenarioFound, promptError, written,
                   pc, stream, i, response, nCalls, calls, produced, picked, rlog, wlog,
                   created, evals, channel, delayArgs, delay, peArgs, peResult, cache,
                   hashCall, driver, clients>>

SpecCache == InitCache /\ [][UpdateCachedCall]_vars

(* ================================================================== *)
(* The node pipeline: LLM relabel nodes, their entries, the requests   *)
(* ================================================================== *)
PipeNodes == 1..MaxNodes

\* node 1 feeds every other node
Downstream(n) == IF n = 1 THEN PipeNodes \ {1} ELSE {}

\* the entries: the last one belongs to node 2, the others to node 1
nodeOf(e) == IF e = MaxEntries THEN 2 ELSE 1
EntriesOf(n) == {e \in EntryIds : nodeOf(e) = n}

\* mutant: the whole configuration is hashed
hashableFieldsWholeConfig(node) ==
    [relabelLLM |-> node.relabelLLM, maxLLMConcurrency |-> node.maxLLMConcurrency]

\* hashableFields: (node) => ({ relabelLLM: node.config.relabelLLM })
hashableFields(node) == [relabelLLM |-> node.relabelLLM]

\* the Hasher: the digest of a node's kind, the hashable fields of its
\* configuration and the hashes of its direct upstream nodes; equal for equal
\* inputs, and no two inputs collide
hashOf(type, node, upstream) == <<type, hashableFields(node), upstream>>

\* the hash of a node of the pipeline below: an LLM relabel node, the upstream
\* hashes left out of the digest
hashNode(node) == hashOf("LLMRelabel", node, <<>>)

(* ------------------------------------------------------------------ *)
(* The Hasher on its own: any two LLM relabel nodes                    *)
(* ------------------------------------------------------------------ *)
\* the hashes of upstream nodes: none or one of them
UpstreamHashes == {<<>>} \cup {<<u>> : u \in NodeHashes}

\* an LLM relabel node as the Hasher sees it: its configuration, a field of
\* the row outside the configuration, the hashes of its upstream nodes
HashedNodes ==
    [relabelLLM : RelabelOptions, maxLLMConcurrency : 1..MaxConcurrency,
     name : {"a", "b"}, upstream : UpstreamHashes]

HashCall ==
    /\ \E a, b \in HashedNodes :
          hashCall' = Some([a |-> a, b |-> b,
                            hashA |-> hashOf("LLMRelabel", a, a.upstream),
                            hashB |-> hashOf("LLMRelabel", b, b.upstream),
                            again |-> hashOf("LLMRelabel", a, a.upstream)])
    /\ UNCHANGED <<cellExists, cell, variantFound, scenarioFound, promptError, written,
                   pc, stream, i, response, nCalls, calls, produced, picked, rlog, wlog,
                   created, evals, channel, delayArgs, delay, peArgs, peResult, entries,
                   cache, ucCall, driver, clients>>

InitHash == EngineIdle /\ PipelineIdle /\ ClientsIdle

SpecHash == InitHash /\ [][HashCall]_vars

\* mutant: one more than the node's configuration allows
getConcurrencyPlusOne(node) == node.maxLLMConcurrency + 1

\* getConcurrency: (node) => node.config.maxLLMConcurrency
getConcurrency(node) == node.maxLLMConcurrency

readBatchSize == 50

\* mutant: beforeProcessing marks the entries whatever the option
beforeProcessingAlways(rows, id, node) ==
    [e \in DOMAIN rows |->
        IF rows[e].nodeId = id /\ rows[e].status = "PENDING"
        THEN [rows[e] EXCEPT !.status = "PROCESSED"]
        ELSE rows[e]]

\* mutant: with SkipRelabel every entry that is not PROCESSED is marked
beforeProcessingUnlessProcessed(rows, id, node) ==
    IF node.relabelLLM = SkipRelabel
    THEN [e \in DOMAIN rows |->
            IF rows[e].nodeId = id /\ rows[e].status # "PROCESSED"
            THEN [rows[e] EXCEPT !.status = "PROCESSED"]
            ELSE rows[e]]
    ELSE rows

\* beforeProcessing(node): with SkipRelabel, updateMany where nodeId = node.id
\* and status = PENDING, data status PROCESSED; otherwise nothing
beforeProcessing(rows, id, node) ==
    IF node.relabelLLM = SkipRelabel
    THEN [e \in DOMAIN rows |->
            IF rows[e].nodeId = id /\ rows[e].status = "PENDING"
            THEN [rows[e] EXCEPT !.status = "PROCESSED"]
            ELSE rows[e]]
    ELSE rows

(* ------------------------------------------------------------------ *)
(* beforeProcessing, then updateCached, on any rows                    *)
(* ------------------------------------------------------------------ *)
\* the rows of an LLM relabel node and of another node, some of them in ERROR
\* from an earlier invocation
RelabelRows ==
    {[nodeId |-> n, persistentId |-> 0, status |-> st, inputHash |-> h,
      outputHash |-> 1, originalOutputHash |-> NULL, split |-> "TRAIN",
      error |-> IF st = "ERROR" THEN Some("bad request") ELSE NULL] :
        n \in NodeIds, st \in {"PENDING", "PROCESSED", "ERROR"}, h \in {1, 2}}

\* the records for input hash 1, keyed in every way
RelabelRecords == {c \in Records : c.nodeEntryPersistentId = 1
                                    /\ c.incomingInputHash = 1 /\ c.incomingOutputHash = 1}

InitPrepare ==
    /\ EngineIdle
    /\ peArgs = NULL /\ peResult = NULL
    /\ \E rows \in [CacheEntryIds -> RelabelRows] :
          entries = [e \in CacheEntryIds |-> [rows[e] EXCEPT !.persistentId = e]]
    /\ cache \in {c \in SUBSET RelabelRecords : Cardinality(c) <= MaxRecords}
    /\ ucCall = NULL
    /\ nodes = <<>> /\ queued = <<>> /\ drv = <<>> /\ router = NULL
    /\ budget = [requests |-> 0, rateLimits |-> 0] /\ owed = {} /\ sweep = NULL
    /\ hashCall = NULL
    /\ ClientsIdle

\* beforeProcessing(node) for an LLM relabel node
BeforeProcessingCall ==
    /\ ucCall = NULL
    /\ \E id \in NodeIds, hash \in NodeHashes, relabelLLM \in RelabelOptions :
          LET node == [id |-> id, hash |-> hash, type |-> "LLMRelabel",
                       relabelLLM |-> relabelLLM] IN
          /\ entries' = beforeProcessing(entries, id, node)
          /\ ucCall' = Some([node |-> node, entries |-> entries, cache |-> cache,
                             step |-> "beforeProcessing"])
    /\ UNCHANGED <<cellExists, cell, variantFound, scenarioFound, promptError, written,
                   pc, stream, i, response, nCalls, calls, produced, picked, rlog, wlog,
                   created, evals, channel, delayArgs, delay, peArgs, peResult, cache,
                   hashCall, driver, clients>>

\* updateCached({ node }) for the same node
CachePropagationCall ==
    /\ ucCall # NULL
    /\ ucCall[1].step = "beforeProcessing"
    /\ entries' \in updateCached(entries, cache, ucCall[1].node)
    /\ ucCall' = Some([ucCall[1] EXCEPT !.step = "updateCached"])
    /\ UNCHANGED <<cellExists, cell, variantFound, scenarioFound, promptError, written,
                   pc, stream, i, response, nCalls, calls, produced, picked, rlog, wlog,
                   created, evals, channel, delayArgs, delay, peArgs, peResult, cache,
                   hashCall, driver, clients>>

NextPrepare == BeforeProcessingCall \/ CachePropagationCall

SpecPrepare == InitPrepare /\ [][NextPrepare]_vars

(* ------------------------------------------------------------------ *)
(* The job queue of processNode and the requests                       *)
(* ------------------------------------------------------------------ *)
\* enqueueProcessNode({ nodeId, invalidateData }): one job per node waits at
\* most; a request that meets a waiting job is merged into it
enqueueProcessNode(q, n, invalidateData) ==
    [q EXCEPT ![n] =
        Some([invalidateData |-> invalidateData \/ (@ # NULL /\ @[1].invalidateData)])]

InProgress(n) == drv[n].pc # "idle"

\* the entries a request for node n owes a later look: PENDING now, while the
\* node is in progress
Owes(n) == IF InProgress(n)
           THEN {e \in EntriesOf(n) : entries[e].status = "PENDING"}
           ELSE {}

MayRequest == budget.requests < MaxRequests /\ router = NULL

\* enqueueProcessNode({ nodeId }) from outside, as in scripts/repl.ts
RequestProcess(n) ==
    /\ MayRequest
    /\ queued' = enqueueProcessNode(queued, n, FALSE)
    /\ owed' = owed \cup Owes(n)
    /\ budget' = [budget EXCEPT !.requests = @ + 1]
    /\ UNCHANGED <<rest, sweep, nodes, drv, router, entries, cache>>

\* mutant: the job carries no invalidateData
routerPayloadPlain == FALSE

\* the invalidateData of updateRelabelingModel's job
routerPayload == TRUE

\* the ids updateRelabelingModel is called with: the LLM relabel nodes of the
\* pipeline, a node of another type and an id no node has
ArchiveNodeId == MaxNodes + 1

MissingNodeId == MaxNodes + 2

InputNodeIds == PipeNodes \cup {ArchiveNodeId, MissingNodeId}

\* selectFrom("Node as n").where("n.id", "=", id).executeTakeFirst()
selectNode(id) ==
    IF id \in PipeNodes THEN Some([type |-> "LLMRelabel", config |-> nodes[id]])
    ELSE IF id = ArchiveNodeId THEN Some([type |-> "Archive"])
    ELSE NULL

\* mutant: the option the node has is not looked at
alreadySetNever(config, relabelOption) == FALSE

\* tLlmRelabelNode.config.relabelLLM === input.relabelOption
alreadySet(config, relabelOption) == config.relabelLLM = relabelOption

\* the three returns before the node update
returnsEarly(id, relabelOption) ==
    \/ selectNode(id) = NULL
    \/ selectNode(id)[1].type # "LLMRelabel"
    \/ alreadySet(selectNode(id)[1].config, relabelOption)

\* updateRelabelingModel up to the node update, for a caller who may modify
\* the project: without a node of this id, with a node of another type or
\* with the option the node already has the mutation returns, else the node
\* is updated with the new option (checkNodeInput gives the row its hash) and
\* the enqueue follows
UpdateRelabelingModel(n, relabelOption) ==
    /\ MayRequest
    /\ budget' = [budget EXCEPT !.requests = @ + 1]
    /\ IF returnsEarly(n, relabelOption)
       THEN UNCHANGED <<nodes, router>>
       ELSE /\ LET input == [nodes[n] EXCEPT !.relabelLLM = relabelOption] IN
               nodes' = [nodes EXCEPT ![n] = [input EXCEPT !.hash = hashNode(input)]]
            /\ router' = Some(n)
    /\ UNCHANGED <<rest, sweep, queued, drv, owed, entries, cache>>

\* await enqueueProcessNode({ nodeId, invalidateData: true })
RouterEnqueue ==
    /\ router # NULL
    /\ queued' = enqueueProcessNode(queued, router[1], routerPayload)
    /\ owed' = owed \cup Owes(router[1])
    /\ router' = NULL
    /\ UNCHANGED <<rest, sweep, nodes, drv, budget, entries, cache>>

(* ------------------------------------------------------------------ *)
(* The Pipeline Driver: one invocation of a node                       *)
(* ------------------------------------------------------------------ *)
IdleDriver ==
    [pc |-> "idle", node |-> NULL, invalidate |-> FALSE, batch |-> {}, inFlight |-> {},
     sweeps |-> 0, reset |-> {}, passed |-> {}, hits |-> {}, called |-> {},
     pulls |-> 0, triggered |-> [m \in PipeNodes |-> 0]]

DrvGoto(n, label) == drv' = [drv EXCEPT ![n].pc = label]

\* what is owed stays owed while the entry is PENDING
StillOwed(rows) == {e \in owed : rows[e].status = "PENDING"}

\* mutant: a job starts whether or not the node is in progress
mayStartAlways(n) == TRUE

\* one active processor per node: a waiting job starts when none is running
mayStart(n) == ~InProgress(n)

\* the job of node n starts: the Driver reads the node; the invocation resets
\* the node's data if the job asks for it or the node's hash is not the hash
\* of its configuration
StartNode(n) ==
    /\ queued[n] # NULL
    /\ mayStart(n)
    /\ queued' = [queued EXCEPT ![n] = NULL]
    /\ LET invalidate == queued[n][1].invalidateData \/ hashNode(nodes[n]) # nodes[n].hash IN
       drv' = [drv EXCEPT ![n] =
                  [IdleDriver EXCEPT !.pc = IF invalidate THEN "invalidate" ELSE "before",
                                     !.node = Some(nodes[n]),
                                     !.invalidate = invalidate,
                                     !.sweeps = drv[n].sweeps + 1]]
    /\ UNCHANGED <<rest, sweep, nodes, router, budget, owed, entries, cache>>

StartNodeStep(n) == queued[n] # NULL /\ queued'[n] = NULL

\* every entry of the node goes back to PENDING
Invalidate(n) ==
    /\ drv[n].pc = "invalidate"
    /\ entries' = [e \in DOMAIN entries |->
                      IF entries[e].nodeId = n
                      THEN [entries[e] EXCEPT !.status = "PENDING", !.error = NULL]
                      ELSE entries[e]]
    /\ drv' = [drv EXCEPT ![n].pc = "before", ![n].reset = EntriesOf(n)]
    /\ UNCHANGED <<rest, sweep, nodes, queued, router, budget, owed, cache>>

\* step 1: the kind's beforeProcessing
BeforeProcessing(n) ==
    /\ drv[n].pc = "before"
    /\ entries' = beforeProcessing(entries, n, drv[n].node[1])
    /\ owed' = StillOwed(entries')
    /\ DrvGoto(n, "cache")
    /\ UNCHANGED <<rest, sweep, nodes, queued, router, budget, cache>>

\* step 2: updateCached({ node })
PropagateCache(n) ==
    /\ drv[n].pc = "cache"
    /\ entries' \in updateCached(entries, cache,
                                 [id |-> n, hash |-> drv[n].node[1].hash, type |-> "LLMRelabel"])
    /\ owed' = StillOwed(entries')
    /\ drv' = [drv EXCEPT ![n].pc = "pull",
                          ![n].hits = {e \in EntryIds : entries'[e] # entries[e]}]
    /\ UNCHANGED <<rest, sweep, nodes, queued, router, budget, cache>>

\* mutant: a read is not limited
batchSizesUnlimited(pending) == {Cardinality(pending)}

\* the sizes a read of the PENDING entries may have: up to readBatchSize
batchSizes(pending) ==
    {IF Cardinality(pending) < readBatchSize THEN Cardinality(pending) ELSE readBatchSize}

\* step 3: pull the next batch of PENDING entries; with none left the sweep
\* is over
PullBatch(n) ==
    /\ drv[n].pc = "pull"
    /\ LET pending == {e \in EntriesOf(n) : entries[e].status = "PENDING"} IN
       IF pending = {}
       THEN DrvGoto(n, "finish")
       ELSE \E b \in SUBSET pending :
               /\ Cardinality(b) \in batchSizes(pending)
               /\ drv' = [drv EXCEPT ![n].pc = "sweep", ![n].batch = b,
                                     ![n].pulls = IF @ < 2 THEN @ + 1 ELSE @]
    /\ UNCHANGED <<rest, sweep, nodes, queued, router, budget, owed, entries, cache>>

\* the entry as processEntry sees it
entryArg(e) == [id |-> e, output |-> Some(entries[e].outputHash)]

\* a transform of the batch is dispatched while fewer than the node's
\* concurrency are in flight: processEntry is called for the entry
StartTransform(n, e) ==
    /\ drv[n].pc = "sweep"
    /\ e \in drv[n].batch
    /\ Cardinality(drv[n].inFlight) < getConcurrency(drv[n].node[1])
    /\ entries' = [entries EXCEPT ![e].status = "PROCESSING"]
    /\ owed' = StillOwed(entries')
    /\ drv' = [drv EXCEPT ![n].batch = @ \ {e},
                          ![n].inFlight = @ \cup {e},
                          ![n].passed = @ \cup {e},
                          ![n].called = IF callsModel(drv[n].node[1].relabelLLM)
                                        THEN @ \cup {e} ELSE @]
    /\ UNCHANGED <<rest, sweep, nodes, queued, router, budget, cache>>

\* what the model answers a transform of the Driver
DriverOutcomes ==
    {[kind |-> "completion", choices |-> <<[message |-> Some("m1")]>>],
     [kind |-> "rejects",
      error |-> [isAPIError |-> TRUE, status |-> Some(429),
                 message |-> Some("too many requests")]],
     [kind |-> "rejects",
      error |-> [isAPIError |-> TRUE, status |-> Some(500), message |-> Some("bad request")]]}

\* the record kept of a processed entry: the output hash of this input hash
\* under the node's hash
cacheRecord(node, row) ==
    [nodeHash |-> Some(node.hash), nodeId |-> NULL, nodeEntryPersistentId |-> NULL,
     incomingInputHash |-> row.inputHash, incomingOutputHash |-> NULL,
     outgoingInputHash |-> NULL, outgoingOutputHash |-> row.outputHash,
     outgoingSplit |-> NULL]

\* the result of processEntry is stored on the entry
stored(row, result) ==
    IF result.status = "PROCESSED"
    THEN [row EXCEPT !.status = "PROCESSED", !.outputHash = result.output[1],
                     !.error = NULL]
    ELSE [row EXCEPT !.status = result.status, !.error = Some(result.error)]

\* processEntry settles for entry e with the model's answer `outcome`
FinishTransform(n, e, outcome) ==
    /\ drv[n].pc = "sweep"
    /\ e \in drv[n].inFlight
    /\ LET node == drv[n].node[1]
           limited == callsModel(node.relabelLLM) /\ outcome.kind = "rejects"
                        /\ isRateLimit(outcome.error)
           result == processEntry(node.relabelLLM, entryArg(e), outcome)
           row == stored(entries[e], result)
       IN  /\ limited => budget.rateLimits < MaxRateLimits
           /\ budget' = [budget EXCEPT !.rateLimits = IF limited THEN @ + 1 ELSE @]
           /\ entries' = [entries EXCEPT ![e] = row]
           /\ cache' = IF result.status = "PROCESSED"
                       THEN cache \cup {cacheRecord(node, row)} ELSE cache
    /\ drv' = [drv EXCEPT ![n].inFlight = @ \ {e},
                          ![n].pc = IF drv[n].batch = {} /\ drv[n].inFlight = {e}
                                    THEN "pull" ELSE "sweep"]
    /\ UNCHANGED <<rest, sweep, nodes, queued, router, owed>>

\* the sweep is over: after a reset of the node's data every downstream node
\* is invoked; the job ends
FinishNode(n) ==
    /\ drv[n].pc = "finish"
    /\ LET cascade == IF drv[n].invalidate THEN Downstream(n) ELSE {} IN
       /\ queued' = [m \in PipeNodes |->
                        IF m \in cascade THEN enqueueProcessNode(queued, m, FALSE)[m]
                        ELSE queued[m]]
       /\ owed' = owed \cup UNION {Owes(m) : m \in cascade}
       /\ drv' = [drv EXCEPT ![n].pc = "idle",
                             ![n].sweeps = @ - 1,
                             ![n].triggered = [m \in PipeNodes |->
                                                  IF m \in cascade THEN @[m] + 1 ELSE @[m]]]
    /\ UNCHANGED <<rest, sweep, nodes, router, budget, entries, cache>>

(* ------------------------------------------------------------------ *)
(* The specification of the node pipeline                              *)
(* ------------------------------------------------------------------ *)
NewEntry(e, status) ==
    [nodeId |-> nodeOf(e), persistentId |-> e, status |-> status,
     inputHash |-> IF e = 2 THEN 2 ELSE 1, outputHash |-> "m0",
     originalOutputHash |-> NULL, split |-> "TRAIN", error |-> NULL]

NewNode(relabelLLM, maxLLMConcurrency) ==
    LET config == [relabelLLM |-> relabelLLM, maxLLMConcurrency |-> maxLLMConcurrency] IN
    [relabelLLM |-> relabelLLM, maxLLMConcurrency |-> maxLLMConcurrency,
     hash |-> hashNode(config)]

InitNode ==
    /\ EngineIdle
    /\ peArgs = NULL /\ peResult = NULL /\ ucCall = NULL
    /\ \E relabelLLM \in RelabelOptions, maxLLMConcurrency \in 1..MaxConcurrency :
          nodes = [n \in PipeNodes |->
                     IF n = 1 THEN NewNode(relabelLLM, maxLLMConcurrency)
                     ELSE NewNode("gpt-4", 1)]
    /\ \E status \in [EntryIds -> {"PENDING", "PROCESSED"}] :
          entries = [e \in EntryIds |-> NewEntry(e, status[e])]
    /\ cache \in {{}, {cacheRecord([hash |-> hashNode([relabelLLM |-> "gpt-4"])], [inputHash |-> 1, outputHash |-> "m2"])}}
    /\ queued = [n \in PipeNodes |-> NULL]
    /\ drv = [n \in PipeNodes |-> IdleDriver]
    /\ router = NULL
    /\ budget = [requests |-> 0, rateLimits |-> 0]
    /\ owed = {}
    /\ sweep = NULL
    /\ hashCall = NULL
    /\ ClientsIdle

NextNode ==
    \/ \E n \in PipeNodes : RequestProcess(n)
    \/ \E n \in InputNodeIds, relabelOption \in RelabelOptions :
          UpdateRelabelingModel(n, relabelOption)
    \/ RouterEnqueue
    \/ \E n \in PipeNodes : StartNode(n)
    \/ \E n \in PipeNodes : Invalidate(n)
    \/ \E n \in PipeNodes : BeforeProcessing(n)
    \/ \E n \in PipeNodes : PropagateCache(n)
    \/ \E n \in PipeNodes : PullBatch(n)
    \/ \E n \in PipeNodes, e \in EntryIds : StartTransform(n, e)
    \/ \E n \in PipeNodes, e \in EntryIds, outcome \in DriverOutcomes :
          FinishTransform(n, e, outcome)
    \/ \E n \in PipeNodes : FinishNode(n)

SpecNode == InitNode /\ [][NextNode]_vars

\* the steps of the Driver's jobs, which the job execution collaborator
\* carries out sooner or later
DriverStep ==
    \/ \E n \in PipeNodes : StartNode(n)
    \/ \E n \in PipeNodes : Invalidate(n)
    \/ \E n \in PipeNodes : BeforeProcessing(n)
    \/ \E n \in PipeNodes : PropagateCache(n)
    \/ \E n \in PipeNodes : PullBatch(n)
    \/ \E n \in PipeNodes, e \in EntryIds : StartTransform(n, e)
    \/ \E n \in PipeNodes, e \in EntryIds, outcome \in DriverOutcomes :
          FinishTransform(n, e, outcome)
    \/ \E n \in PipeNodes : FinishNode(n)

SpecNodeFair == SpecNode /\ WF_vars(DriverStep)

\* the mutation awaits its enqueue right after the node update
SpecMutation == SpecNode /\ WF_vars(RouterEnqueue)

(* ------------------------------------------------------------------ *)
(* The batches of one invocation, by numbers of entries                *)
(* ------------------------------------------------------------------ *)
\* Step 3 of the Driver for a node with many PENDING entries. The entries are
\* counted, not told apart: sweep.pending are PENDING and not read,
\* sweep.batch are read and not yet dispatched, sweep.inFlight are in
\* processEntry. sweep.read is the size of the last read, sweep.reads the
\* reads made, sweep.open the transforms in flight when the last read was made.
NewSweep(node, pending) ==
    [pc |-> "pull", node |-> node, pending |-> pending, batch |-> 0, inFlight |-> 0,
     read |-> 0, reads |-> 0, open |-> 0, limits |-> 0]

\* the next read of PENDING entries; with none left the sweep is over
BatchPull ==
    /\ sweep.pc = "pull"
    /\ IF sweep.pending = 0
       THEN sweep' = [sweep EXCEPT !.pc = "finish"]
       ELSE \E size \in batchSizes(1..sweep.pending) :
               sweep' = [sweep EXCEPT !.pc = "sweep", !.batch = size,
                                      !.pending = @ - size, !.read = size,
                                      !.reads = IF @ < 3 THEN @ + 1 ELSE @,
                                      !.open = sweep.inFlight]
    /\ UNCHANGED <<rest, entries, cache, nodes, queued, drv, router, budget, owed>>

\* a transform of the batch is dispatched while fewer than the node's
\* concurrency are in flight
BatchStart ==
    /\ sweep.pc = "sweep"
    /\ sweep.batch > 0
    /\ sweep.inFlight < getConcurrency(sweep.node)
    /\ sweep' = [sweep EXCEPT !.batch = @ - 1, !.inFlight = @ + 1]
    /\ UNCHANGED <<rest, entries, cache, nodes, queued, drv, router, budget, owed>>

\* a transform settles; a rate-limited entry is PENDING again; after the last
\* one of the batch the next read follows
BatchSettle(limited) ==
    /\ sweep.pc = "sweep"
    /\ sweep.inFlight > 0
    /\ limited => sweep.limits < MaxRateLimits
    /\ sweep' = [sweep EXCEPT !.inFlight = @ - 1,
                              !.pending = IF limited THEN @ + 1 ELSE @,
                              !.limits = IF limited THEN @ + 1 ELSE @,
                              !.pc = IF sweep.batch = 0 /\ sweep.inFlight = 1
                                     THEN "pull" ELSE "sweep"]
    /\ UNCHANGED <<rest, entries, cache, nodes, queued, drv, router, budget, owed>>

InitBatch ==
    /\ EngineIdle
    /\ peArgs = NULL /\ peResult = NULL /\ ucCall = NULL
    /\ entries = <<>> /\ cache = {} /\ nodes = <<>> /\ queued = <<>> /\ drv = <<>>
    /\ router = NULL /\ budget = [requests |-> 0, rateLimits |-> 0] /\ owed = {}
    /\ hashCall = NULL
    /\ ClientsIdle
    /\ \E maxLLMConcurrency \in 1..MaxConcurrency, pending \in 0..MaxPending :
          sweep = NewSweep(NewNode("gpt-4", maxLLMConcurrency), pending)

NextBatch ==
    \/ BatchPull
    \/ BatchStart
    \/ \E limited \in BOOLEAN : BatchSettle(limited)

SpecBatch == InitBatch /\ [][NextBatch]_vars

(* ================================================================== *)
(* streamToNdStrings (utils/aws/server.ts)                              *)
(* ================================================================== *)
\* the bytes of a blob: the newline 0x0a and the letters a and b
LF == 10

Bytes == {LF, 97, 98}

\* Buffer.toString("utf-8") for these bytes
utf8(buffer) == [k \in 1..Len(buffer) |-> IF buffer[k] = 97 THEN "a"
                                          ELSE IF buffer[k] = 98 THEN "b" ELSE "\n"]

\* chunk.indexOf(0x0a), counted from 1, with 0 for the -1 of not found
indexOf(chunk, byte) ==
    IF \E k \in 1..Len(chunk) : chunk[k] = byte
    THEN CHOOSE k \in 1..Len(chunk) :
            chunk[k] = byte /\ \A l \in 1..(k - 1) : chunk[l] # byte
    ELSE 0

\* the while loop of the data handler: lines are cut off the chunk while it
\* holds a newline and fewer than maxEntriesToImport lines were taken
RECURSIVE cutLines(_, _, _, _)
cutLines(chunk, lines, numEntriesImported, maxEntriesToImport) ==
    LET newlineIndex == indexOf(chunk, LF) IN
    IF newlineIndex # 0 /\ numEntriesImported < maxEntriesToImport
    THEN cutLines(SubSeq(chunk, newlineIndex + 1, Len(chunk)),
                  Append(lines, utf8(SubSeq(chunk, 1, newlineIndex - 1))),
                  numEntriesImported + 1, maxEntriesToImport)
    ELSE [chunk |-> chunk, lines |-> lines, numEntriesImported |-> numEntriesImported]

\* resolve and reject settle the promise once; later calls do nothing. The
\* promise resolves with the array `lines` itself, whose length then is kept
settle(r, how) ==
    IF r.settled = NULL THEN Some([how |-> how, length |-> Len(r.lines)]) ELSE r.settled

\* the closure of a call and the stream it listens to
NewReader(input, maxEntriesToImport, chunkInterval) ==
    [input |-> input, delivered |-> 0, closed |-> FALSE,
     maxEntriesToImport |-> maxEntriesToImport, chunkInterval |-> chunkInterval,
     lines |-> <<>>, bytesDownloaded |-> 0, lastReportedByteCount |-> 0,
     tempBuffer |-> <<>>, numEntriesImported |-> 0, settled |-> NULL]

\* readableStream.on("data"): the stream hands over the next size bytes
OnData(size) ==
    /\ ~reader.closed
    /\ reader.delivered + size <= Len(reader.input)
    /\ LET data == SubSeq(reader.input, reader.delivered + 1, reader.delivered + size)
           bytesDownloaded == reader.bytesDownloaded + Len(data)
           reports == bytesDownloaded - reader.lastReportedByteCount >= reader.chunkInterval
           cut == cutLines(reader.tempBuffer \o data, reader.lines,
                           reader.numEntriesImported, reader.maxEntriesToImport)
           counted == [reader EXCEPT !.delivered = @ + size,
                                     !.bytesDownloaded = bytesDownloaded,
                                     !.lastReportedByteCount =
                                         IF reports THEN bytesDownloaded ELSE @,
                                     !.lines = cut.lines,
                                     !.numEntriesImported = cut.numEntriesImported]
       IN reader' = IF cut.numEntriesImported >= reader.maxEntriesToImport
                    THEN [counted EXCEPT !.settled = settle(counted, "resolved")]
                    ELSE [counted EXCEPT !.tempBuffer = cut.chunk]
    /\ UNCHANGED <<server, upload, variants>>

\* readableStream.on("end"), once everything was handed over
OnEnd ==
    /\ ~reader.closed
    /\ reader.delivered = Len(reader.input)
    /\ LET pushed == [reader EXCEPT !.lines = IF Len(reader.tempBuffer) > 0
                                              THEN Append(@, utf8(reader.tempBuffer))
                                              ELSE @]
       IN reader' = [pushed EXCEPT !.settled = settle(pushed, "resolved"),
                                   !.closed = TRUE]
    /\ UNCHANGED <<server, upload, variants>>

\* readableStream.on("error", reject): the stream fails and hands over no more
OnError ==
    /\ ~reader.closed
    /\ reader' = [reader EXCEPT !.settled = settle(reader, "rejected"), !.closed = TRUE]
    /\ UNCHANGED <<server, upload, variants>>

\* the blobs: the byte sequences of up to MaxBytes bytes
RECURSIVE Blobs(_)
Blobs(length) ==
    IF length = 0 THEN {<<>>}
    ELSE Blobs(length - 1)
           \cup {Append(blob, byte) : blob \in {b \in Blobs(length - 1) : Len(b) = length - 1},
                                      byte \in Bytes}

\* chunkInterval, in bytes, for blobs this small
ChunkIntervals == {2}

InitStream ==
    /\ EngineIdle /\ PipelineIdle
    /\ upload = NULL /\ variants = NULL
    /\ \E input \in Blobs(MaxBytes), maxEntriesToImport \in 0..MaxLines,
          chunkInterval \in ChunkIntervals :
          reader = NewReader(input, maxEntriesToImport, chunkInterval)

NextStream ==
    \/ \E size \in 1..MaxBytes : OnData(size)
    \/ OnEnd
    \/ OnError

SpecStream == InitStream /\ [][NextStream]_vars

(* ================================================================== *)
(* uploadDatasetEntryFileToS3: the multipart upload of a file           *)
(* ================================================================== *)
\* 5MB for each part
PART_SIZE == 5 * 1024 * 1024

\* Math.ceil(fileSize / PART_SIZE)
NUM_PARTS(fileSize) == (fileSize + PART_SIZE - 1) \div PART_SIZE

\* file sizes: the empty file and, for every number of parts, the smallest
\* and the largest file of that many parts
FileSizes == {0} \cup UNION {{(k - 1) * PART_SIZE + 1, k * PART_SIZE} : k \in 1..MaxParts}

\* an error thrown in the function: by which request, for which part (0: none)
Failure(what, part) == [what |-> what, part |-> part]

\* how the PUT of part k ends: fetch rejects, the response is not ok (the
\* then-callback throws), or it is ok and has the part's ETag header or none
Fetched(k) ==
    {[settled |-> "rejected", etag |-> NULL, error |-> Failure("fetch", k)],
     [settled |-> "rejected", etag |-> NULL, error |-> Failure("HTTP error", k)],
     [settled |-> "fulfilled", etag |-> NULL, error |-> Failure("", 0)],
     [settled |-> "fulfilled", etag |-> Some(<<"etag", k>>), error |-> Failure("", 0)]}

NotStarted == [settled |-> "none", etag |-> NULL, error |-> Failure("", 0)]
InFlight == [settled |-> "pending", etag |-> NULL, error |-> Failure("", 0)]

Request(call, part, parts) == [call |-> call, part |-> part, parts |-> parts]

NewUpload(fileSize) ==
    [fileSize |-> fileSize, pc |-> "initiate", uploadId |-> NULL, partNumber |-> 1,
     partUploadPromises |-> [k \in 1..NUM_PARTS(fileSize) |-> NotStarted],
     requests |-> <<>>, error |-> NULL, result |-> NULL]

Parts(u) == 1..NUM_PARTS(u.fileSize)

RejectedParts(u) == {k \in Parts(u) : u.partUploadPromises[k].settled = "rejected"}

NullETags(u) == {k \in Parts(u) : u.partUploadPromises[k].etag = NULL}

Lowest(S) == CHOOSE k \in S : \A l \in S : k <= l

\* the function throws error: its promise rejects
throw(u, error) ==
    [u EXCEPT !.pc = "done", !.error = IF @ = NULL THEN Some(error) ELSE @,
              !.result = Some([thrown |-> error])]

\* the catch block is entered with error
catch(u, error) == [u EXCEPT !.pc = "abort", !.error = Some(error)]

\* etags.map: the first null ETag throws, else the parts are numbered by index
mapEtags(u) ==
    IF NullETags(u) # {}
    THEN catch(u, Failure("ETag is null", Lowest(NullETags(u))))
    ELSE [u EXCEPT !.pc = "complete"]

\* await Promise.all(partUploadPromises): a rejected promise makes it reject
\* (the first in the array when several were rejected before), fulfilled
\* promises all round let it go on, else it waits
awaitAll(u) ==
    IF RejectedParts(u) # {}
    THEN catch(u, u.partUploadPromises[Lowest(RejectedParts(u))].error)
    ELSE IF \A k \in Parts(u) : u.partUploadPromises[k].settled = "fulfilled"
    THEN mapEtags(u)
    ELSE [u EXCEPT !.pc = "all"]

Sent(u, request) == [u EXCEPT !.requests = Append(@, request)]

\* Step 1: initiateMultipartUpload; with no part to upload the loop is over
InitiateMultipartUpload(ok) ==
    /\ upload.pc = "initiate"
    /\ LET sent == Sent(upload, Request("initiate", 0, <<>>)) IN
       upload' = IF ~ok THEN throw(sent, Failure("initiate", 0))
                 ELSE LET started == [sent EXCEPT !.uploadId = Some("uploadId"),
                                                  !.pc = "parts"] IN
                      IF NUM_PARTS(upload.fileSize) = 0 THEN awaitAll(started)
                      ELSE started
    /\ UNCHANGED <<server, reader, variants>>

\* Steps 2 and 3 for one part: the presigned URL is awaited, the PUT is
\* started and not awaited; after the last part the function awaits them all
GetPresignedUploadUrlForPart(ok) ==
    /\ upload.pc = "parts"
    /\ LET partNumber == upload.partNumber
           sent == Sent(upload, Request("presign", partNumber, <<>>)) IN
       upload' = IF ~ok THEN throw(sent, Failure("presign", partNumber))
                 ELSE LET put == [Sent(sent, Request("PUT", partNumber, <<>>)) EXCEPT
                                     !.partUploadPromises[partNumber] = InFlight,
                                     !.partNumber = partNumber + 1] IN
                      IF partNumber = NUM_PARTS(upload.fileSize) THEN awaitAll(put)
                      ELSE put
    /\ UNCHANGED <<server, reader, variants>>

\* the PUT of part k ends, whatever the function is doing
FetchSettles(k, outcome) ==
    /\ k \in Parts(upload)
    /\ upload.partUploadPromises[k] = InFlight
    /\ LET settled == [upload EXCEPT !.partUploadPromises[k] = outcome] IN
       upload' = IF upload.pc = "all" THEN awaitAll(settled) ELSE settled
    /\ UNCHANGED <<server, reader, variants>>

\* the parts handed to completeMultipartUpload
parts(u) == [k \in Parts(u) |-> [ETag |-> u.partUploadPromises[k].etag[1], PartNumber |-> k]]

\* Step 4: completeMultipartUpload
CompleteMultipartUpload(ok) ==
    /\ upload.pc = "complete"
    /\ LET sent == Sent(upload, Request("complete", 0, parts(upload))) IN
       upload' = IF ok THEN [sent EXCEPT !.pc = "done", !.result = Some([returned |-> "blobName"])]
                 ELSE catch(sent, Failure("complete", 0))
    /\ UNCHANGED <<server, reader, variants>>

\* the catch block: abortMultipartUpload, whose own failure is logged only,
\* then the error caught is thrown again
AbortMultipartUpload(ok) ==
    /\ upload.pc = "abort"
    /\ upload' = throw(Sent(upload, Request("abort", 0, <<>>)), upload.error[1])
    /\ UNCHANGED <<server, reader, variants>>

InitUpload ==
    /\ EngineIdle /\ PipelineIdle
    /\ reader = NULL /\ variants = NULL
    /\ \E fileSize \in FileSizes : upload = NewUpload(fileSize)

NextUpload ==
    \/ \E ok \in BOOLEAN : InitiateMultipartUpload(ok)
    \/ \E ok \in BOOLEAN : GetPresignedUploadUrlForPart(ok)
    \/ \E k \in 1..MaxParts : \E outcome \in Fetched(k) : FetchSettles(k, outcome)
    \/ \E ok \in BOOLEAN : CompleteMultipartUpload(ok)
    \/ \E ok \in BOOLEAN : AbortMultipartUpload(ok)

SpecUpload == InitUpload /\ [][NextUpload]_vars

(* ================================================================== *)
(* promptVariantsRouter.replaceVariant                                  *)
(* ================================================================== *)
Replaces == 1..MaxReplaces

OpenAIChatModel == {"gpt-4", "gpt-3.5-turbo"}

\* what constructPrompt makes of a constructFn: it throws, or it returns a
\* value that is an object or not, with a model property or not, whose value
\* is a string or not
Constructs(throws, isObject, hasModel, isString, model) ==
    [throws |-> throws, isObject |-> isObject, hasModel |-> hasModel,
     isString |-> isString, model |-> model]

ConstructFns ==
    {Constructs(TRUE, FALSE, FALSE, FALSE, ""),
     Constructs(FALSE, FALSE, FALSE, FALSE, ""),
     Constructs(FALSE, TRUE, FALSE, FALSE, ""),
     Constructs(FALSE, TRUE, TRUE, FALSE, "4"),
     Constructs(FALSE, TRUE, TRUE, TRUE, "davinci"),
     Constructs(FALSE, TRUE, TRUE, TRUE, "gpt-4"),
     Constructs(FALSE, TRUE, TRUE, TRUE, "gpt-3.5-turbo")}

\* the try block of replaceVariant: the message of the userError, if any
userError(constructFn) ==
    IF constructFn.throws THEN Some("message of the error thrown")
    ELSE IF ~constructFn.isObject THEN Some("Prompt is not an object")
    ELSE IF ~constructFn.hasModel THEN Some("Prompt does not define a model")
    ELSE IF ~constructFn.isString \/ constructFn.model \notin OpenAIChatModel
    THEN Some("Prompt defines an invalid model")
    ELSE NULL

\* a PromptVariant row; visible defaults to true. createdBy: the call that
\* created it (0: it was there before)
PromptVariant(uiId, model, createdBy) ==
    [uiId |-> uiId, model |-> model, visible |-> TRUE, createdBy |-> createdBy]

\* the visible scenarios of the experiment
Scenarios == {"scenario"}

NoCall ==
    [pc |-> "none", id |-> 0, constructFn |-> Constructs(FALSE, FALSE, FALSE, FALSE, ""),
     uiId |-> "", model |-> "", newVariant |-> NULL, hid |-> {}]

\* findUnique: the call starts and reads the variant; without one it throws
FindExisting(c, id, constructFn) ==
    /\ variants.calls[c].pc = "none"
    /\ \A d \in Replaces : d < c => variants.calls[d].pc # "none"
    /\ variants' = [variants EXCEPT !.calls[c] =
          IF id \notin DOMAIN variants.rows
          THEN [@ EXCEPT !.pc = "thrown", !.id = id, !.constructFn = constructFn]
          ELSE [@ EXCEPT !.pc = "construct", !.id = id, !.constructFn = constructFn,
                         !.uiId = variants.rows[id].uiId,
                         !.model = variants.rows[id].model]]
    /\ UNCHANGED <<server, reader, upload>>

\* constructPrompt and the checks of what it returned
ConstructPrompt(c) ==
    /\ variants.calls[c].pc = "construct"
    /\ LET call == variants.calls[c] IN
       variants' = [variants EXCEPT !.calls[c] =
          IF userError(call.constructFn) # NULL
          THEN [call EXCEPT !.pc = "userError"]
          ELSE [call EXCEPT !.pc = "create", !.model = call.constructFn.model]]
    /\ UNCHANGED <<server, reader, upload>>

\* prisma.promptVariant.create: a duplicate with only the config changed
CreateVariant(c) ==
    /\ variants.calls[c].pc = "create"
    /\ LET call == variants.calls[c] IN
       variants' = [variants EXCEPT
          !.rows = Append(@, PromptVariant(call.uiId, call.model, c)),
          !.calls[c] = [@ EXCEPT !.pc = "hide", !.newVariant = Some(Len(variants.rows) + 1)]]
    /\ UNCHANGED <<server, reader, upload>>

\* updateMany: anything with the same uiId besides the new one is hidden
HideOldVariants(c) ==
    /\ variants.calls[c].pc = "hide"
    /\ LET call == variants.calls[c]
           old == {k \in DOMAIN variants.rows :
                     variants.rows[k].uiId = call.uiId /\ k # call.newVariant[1]} IN
       variants' = [variants EXCEPT
          !.rows = [k \in DOMAIN @ |-> IF k \in old THEN [@[k] EXCEPT !.visible = FALSE]
                                       ELSE @[k]],
          !.hides = Append(@, c),
          !.calls[c] = [@ EXCEPT !.pc = "cells",
                                 !.hid = {k \in old : variants.rows[k].visible}]]
    /\ UNCHANGED <<server, reader, upload>>

\* generateNewCell for every visible scenario, then { status: "ok" }
GenerateCells(c) ==
    /\ variants.calls[c].pc = "cells"
    /\ variants' = [variants EXCEPT
          !.cells = @ \cup {<<variants.calls[c].newVariant[1], scenario>> :
                              scenario \in Scenarios},
          !.calls[c] = [@ EXCEPT !.pc = "ok"]]
    /\ UNCHANGED <<server, reader, upload>>

\* two variants of an experiment, each with its uiId, and no call yet
InitVariants ==
    /\ EngineIdle /\ PipelineIdle
    /\ reader = NULL /\ upload = NULL
    /\ variants = [rows |-> <<PromptVariant("a", "gpt-4", 0),
                              PromptVariant("b", "gpt-3.5-turbo", 0)>>,
                   calls |-> [c \in Replaces |-> NoCall],
                   hides |-> <<>>,
                   cells |-> {<<1, "scenario">>, <<2, "scenario">>}]

NextVariants ==
    \/ \E c \in Replaces, id \in 1..(2 + MaxReplaces), constructFn \in ConstructFns :
          FindExisting(c, id, constructFn)
    \/ \E c \in Replaces : ConstructPrompt(c)
    \/ \E c \in Replaces : CreateVariant(c)
    \/ \E c \in Replaces : HideOldVariants(c)
    \/ \E c \in Replaces : GenerateCells(c)

SpecVariants == InitVariants /\ [][NextVariants]_vars

(* ================================================================== *)
(* Properties                                                          *)
(* ================================================================== *)
Last(s) == s[Len(s)]

\* every response of the log is a failure the provider marked auto-retryable
AllAutoRetry(log) ==
    \A k \in 1..Len(log) : log[k].type = "error" /\ log[k].autoRetry

\* job j is past the PENDING guard and has not ended
Active(j) ==
    pc[j] \in {"markInProgress", "findVariant", "variantMissing", "findScenario",
               "scenarioMissing", "parsePrompt", "promptInvalid", "getCompletion",
               "createOutput", "markComplete", "runEvals", "updateError", "sleep"}

\* job j has dealt with its last response: its update has landed
Settled(j) == pc[j] \in {"getCompletion", "sleep", "done"}

(* ------------------------------------------------------------------ *)
\* C1: a job that reads a retrievalStatus other than PENDING at pickup
\* (IN_PROGRESS, COMPLETE or ERROR) ends at once: it makes no provider call,
\* no update of the cell (so all four columns are as it found them), creates
\* no ModelOutput, runs no evaluation and has nothing produced or published.
C1_GuardedJobDoesNothing ==
    \A j \in Jobs :
        picked[j] \in {"IN_PROGRESS", "COMPLETE", "ERROR"} =>
            /\ pc[j] = "done"
            /\ nCalls[j] = 0
            /\ rlog[j] = <<>>
            /\ wlog[j] = <<>>
            /\ created[j] = 0
            /\ evals[j] = 0
            /\ ProducedBy(j) = 0

\* a job found the cell IN_PROGRESS while the other job was at work on it
C1_Witness ==
    \E j, k \in Jobs :
        /\ picked[j] = "IN_PROGRESS" /\ pc[j] = "done"
        /\ Active(k) /\ cell.retrievalStatus = "IN_PROGRESS"

(* ------------------------------------------------------------------ *)
\* C2: an execution that passed the guard and whose provider answered every
\* call with an auto-retryable failure has, once ended, made exactly
\* MAX_AUTO_RETRIES + 1 = 11 provider calls, and the update it ended with set
\* the cell to ERROR.
C2_AlwaysRateLimited ==
    \A j \in Jobs :
        (pc[j] = "done" /\ rlog[j] # <<>> /\ AllAutoRetry(rlog[j])) =>
            /\ nCalls[j] = 11
            /\ Len(rlog[j]) = 11
            /\ Last(wlog[j]).retrievalStatus = "ERROR"

C2_Witness ==
    \E j \in Jobs :
        /\ pc[j] = "done" /\ Len(rlog[j]) = 11 /\ AllAutoRetry(rlog[j])
        /\ cell.retrievalStatus = "ERROR"

(* ------------------------------------------------------------------ *)
\* C3 as stated: once the update for the 10th consecutive auto-retryable
\* failure has landed, the execution has ended with ERROR and retryTime null.
C3_Original ==
    \A j \in Jobs :
        (Len(rlog[j]) = 10 /\ AllAutoRetry(rlog[j]) /\ Settled(j)) =>
            /\ pc[j] = "done"
            /\ Last(wlog[j]).retrievalStatus = "ERROR"
            /\ Last(wlog[j]).retryTime = "null"

\* C3, amended: the 10th consecutive auto-retryable failure still schedules a
\* retry (ERROR with retryTime set, and an 11th call follows); it is the 11th
\* that ends the execution with ERROR and retryTime null, and no execution
\* makes a 12th call.
C3_Amended ==
    \A j \in Jobs :
        /\ nCalls[j] <= 11
        /\ (Len(rlog[j]) = 10 /\ AllAutoRetry(rlog[j]) /\ Settled(j)) =>
              /\ pc[j] # "done"
              /\ wlog[j][11].retrievalStatus = "ERROR"
              /\ wlog[j][11].retryTime = "set"
        /\ (Len(rlog[j]) = 11 /\ AllAutoRetry(rlog[j]) /\ Settled(j)) =>
              /\ pc[j] = "done"
              /\ Last(wlog[j]).retrievalStatus = "ERROR"
              /\ Last(wlog[j]).retryTime = "null"

\* the 11th failure ended the execution and left the cell in ERROR, retryTime null
C3_Witness ==
    \E j \in Jobs :
        /\ Len(rlog[j]) = 11 /\ AllAutoRetry(rlog[j]) /\ pc[j] = "done"
        /\ cell.retrievalStatus = "ERROR" /\ cell.retryTime = NULL


(* ------------------------------------------------------------------ *)
\* C4: for every numPreviousTries i >= 0 and every value of Math.random(),
\* calculateDelay(i) lies in [min(15000, 500*2^i), 2*min(15000, 500*2^i)]
\* milliseconds, so never below 500 and never above 30000.
C4_DelayRange ==
    delay # NULL =>
        LET n == delayArgs[1][1]
            d == delay[1]
            lo == IF 500 * 2^n < 15000 THEN 500 * 2^n ELSE 15000
        IN  /\ lo <= d /\ d <= 2 * lo
            /\ 500 <= d /\ d <= 30000

\* a capped delay with jitter: i = 7, Math.random() = 3/4, 15000 + 11250
C4_Witness ==
    /\ delayArgs = Some(<<7, <<3, 4>>>>)
    /\ delay = Some(26250)

(* ------------------------------------------------------------------ *)
\* C5: a failed call is followed by another call only if the failure had
\* autoRetry = true and fewer than 10 attempts preceded it; a failure with
\* autoRetry = false ends the loop at once: the update for it sets ERROR,
\* retryTime null and that failure's message and status code, and the
\* execution ends without another call.
C5_RetryOnlyIfAutoRetry ==
    \A j \in Jobs :
        /\ \A k \in 1..Len(rlog[j]) :
              (rlog[j][k].type = "error" /\ nCalls[j] > k) =>
                  (rlog[j][k].autoRetry /\ k - 1 < 10)
        /\ (rlog[j] # <<>> /\ Last(rlog[j]).type = "error"
               /\ ~Last(rlog[j]).autoRetry /\ Settled(j)) =>
              /\ pc[j] = "done"
              /\ nCalls[j] = Len(rlog[j])
              /\ Last(wlog[j]) =
                    [errorMessage |-> Some(Last(rlog[j]).message),
                     statusCode |-> Some(Last(rlog[j]).statusCode),
                     retryTime |-> "null",
                     retrievalStatus |-> "ERROR"]

\* a non-retryable failure after retried ones ended the loop; the cell shows it
C5_Witness ==
    \E j \in Jobs :
        /\ pc[j] = "done" /\ Len(rlog[j]) >= 3 /\ Last(rlog[j]) = ServerError
        /\ cell = [retrievalStatus |-> "ERROR", statusCode |-> Some(500),
                   errorMessage |-> Some("server error"), retryTime |-> NULL]

(* ------------------------------------------------------------------ *)
\* C6 as stated: every change of retrievalStatus made by a job is one of
\* PENDING -> IN_PROGRESS, IN_PROGRESS -> COMPLETE, IN_PROGRESS -> ERROR,
\* ERROR -> PENDING, and no job makes a provider call while the cell is in
\* ERROR. Stated of the steps a job takes from a cell nobody else has written
\* since the job last read or wrote its status.
JobMoves(j) == pc[j] # "none" /\ pc'[j] # pc[j]

LastSeen(j) == IF wlog[j] = <<>> THEN picked[j] ELSE Last(wlog[j]).retrievalStatus

C6_Original ==
    [][\A j \in Jobs :
          (JobMoves(j) /\ LastSeen(j) = cell.retrievalStatus) =>
              /\ (cell'.retrievalStatus # cell.retrievalStatus) =>
                    <<cell.retrievalStatus, cell'.retrievalStatus>> \in
                        {<<"PENDING", "IN_PROGRESS">>, <<"IN_PROGRESS", "COMPLETE">>,
                         <<"IN_PROGRESS", "ERROR">>, <<"ERROR", "PENDING">>}
              /\ (nCalls'[j] > nCalls[j]) => cell.retrievalStatus # "ERROR"]_vars

\* C6, amended: the retrievalStatus values one execution writes are, in order,
\* IN_PROGRESS (only after it read PENDING), then ERROR with a scheduled retry
\* zero or more times, then at most one final COMPLETE, or ERROR with no retry;
\* it never writes PENDING, and a retry is not preceded by a return to PENDING
\* or IN_PROGRESS: every call after the first follows the execution's own
\* ERROR update and is made with no update in between, so its success takes
\* the cell from ERROR to COMPLETE.
Scheduled(w) ==
    /\ w.retrievalStatus = "ERROR"
    /\ "retryTime" \in DOMAIN w
    /\ w.retryTime = "set"

C6_Amended ==
    \A j \in Jobs :
        LET w == wlog[j] IN
        /\ w # <<>> => (picked[j] = "PENDING" /\ w[1] = [retrievalStatus |-> "IN_PROGRESS"])
        /\ \A k \in 2..Len(w) : w[k].retrievalStatus \in {"COMPLETE", "ERROR"}
        /\ \A k \in 2..(Len(w) - 1) : Scheduled(w[k])
        /\ (w # <<>> /\ Last(w).retrievalStatus # "IN_PROGRESS" /\ ~Scheduled(Last(w)))
              => pc[j] \in {"done", "runEvals"}
        /\ nCalls[j] >= 2 =>
              /\ Len(w) >= nCalls[j]
              /\ \A k \in 2..nCalls[j] : Scheduled(w[k])
        /\ pc[j] = "getCompletion" => Len(w) = nCalls[j]

\* an execution went IN_PROGRESS, ERROR (retry scheduled), COMPLETE
C6_Witness ==
    \E j \in Jobs :
        /\ pc[j] = "done" /\ Len(wlog[j]) = 3
        /\ Scheduled(wlog[j][2])
        /\ wlog[j][3].retrievalStatus = "COMPLETE"
        /\ cell.retrievalStatus = "COMPLETE" /\ cell.retryTime # NULL


(* ------------------------------------------------------------------ *)
\* C7: under any interleaving of queryModel jobs and queueQueryModel calls
\* for the cell, at most one job at a time is past the PENDING guard and
\* still running.
C7_OneActiveJob == Cardinality({j \in Jobs : Active(j)}) <= 1

(* ------------------------------------------------------------------ *)
\* C8: an execution creates a ModelOutput exactly once if a provider call
\* returned success and never otherwise, and creates it before it marks the
\* cell COMPLETE: an execution that wrote COMPLETE has created one, one whose
\* last update set ERROR has created none, and a cell that is COMPLETE has a
\* ModelOutput.
Succeeded(j) == rlog[j] # <<>> /\ Last(rlog[j]).type = "success"

C8_ModelOutputOnce ==
    /\ \A j \in Jobs :
          /\ created[j] <= 1
          /\ created[j] = 1 => Succeeded(j)
          /\ (Succeeded(j) /\ pc[j] # "createOutput") => created[j] = 1
          /\ (\E k \in 1..Len(wlog[j]) : wlog[j][k].retrievalStatus = "COMPLETE")
                => created[j] = 1
          /\ (pc[j] = "done" /\ wlog[j] # <<>>
                 /\ Last(wlog[j]).retrievalStatus = "ERROR") => created[j] = 0
    /\ cell.retrievalStatus = "COMPLETE" => \E j \in Jobs : created[j] = 1

\* one job ended in ERROR and created nothing, the other succeeded after a
\* retry and created one ModelOutput before the cell became COMPLETE
C8_Witness ==
    \E j, k \in Jobs :
        /\ pc[j] = "done" /\ Len(rlog[j]) = 2 /\ created[j] = 1
        /\ Last(wlog[j]).retrievalStatus = "COMPLETE"
        /\ pc[k] = "done" /\ rlog[k] # <<>> /\ Last(rlog[k]).type = "error"
        /\ created[k] = 0
        /\ cell.retrievalStatus = "COMPLETE"

(* ------------------------------------------------------------------ *)
\* C9: streaming does not alter the retry state machine: two executions for
\* the cell, one with stream = true and one with stream = false, that passed
\* the guard and have dealt with the same sequence of provider responses have
\* made the same updates (retrievalStatus, statusCode, errorMessage, retryTime
\* null or not) and as many provider calls, counting the call a sleeping
\* execution is about to make; the one without stream has published nothing.
CallsDue(j) == nCalls[j] + (IF pc[j] = "sleep" THEN 1 ELSE 0)

C9_StreamKeepsStateMachine ==
    \A j, k \in Jobs :
        (/\ stream[j] /\ ~stream[k]
         /\ picked[j] = "PENDING" /\ picked[k] = "PENDING"
         /\ Settled(j) /\ Settled(k)
         /\ rlog[j] = rlog[k]) =>
            /\ wlog[j] = wlog[k]
            /\ CallsDue(j) = CallsDue(k)
            /\ \A m \in 1..Len(channel) : channel[m].job # k

\* both ended after a rate-limited call and a success; the streaming one
\* published a partial output, the other produced one that went nowhere
C9_Witness ==
    \E j, k \in Jobs :
        /\ stream[j] /\ ~stream[k]
        /\ pc[j] = "done" /\ pc[k] = "done"
        /\ rlog[j] = <<RateLimited, SuccessResponse>> /\ rlog[k] = rlog[j]
        /\ ProducedBy(j) = 1 /\ ProducedBy(k) = 1
        /\ Len(channel) = 1

(* ------------------------------------------------------------------ *)
\* C10 as stated: what a streaming execution publishes ends with one
\* terminating message, the final output or an error: once it has ended, a
\* message of that kind from it is on the channel.
C10_Original ==
    \A j \in Jobs :
        (stream[j] /\ pc[j] = "done" /\ rlog[j] # <<>>) =>
            \E m \in 1..Len(channel) :
                channel[m].job = j /\ channel[m].kind \in {"final", "error"}

\* C10, amended: the channel carries exactly the partial outputs the provider
\* produced for executions that asked for streaming, in the order it produced
\* them, and nothing else: no final output and no error follows them, and an
\* execution without stream publishes nothing.
C10_Amended ==
    channel = SelectSeq(produced, LAMBDA p : stream[p.job])

\* two partial outputs of a streaming execution are on the channel in order,
\* the execution has ended in ERROR and nothing followed them
C10_Witness ==
    \E j \in Jobs :
        /\ stream[j] /\ pc[j] = "done"
        /\ rlog[j] # <<>> /\ Last(rlog[j]).type = "error"
        /\ Len(channel) = 2
        /\ channel[1] = [job |-> j, kind |-> "partial", seq |-> 1]
        /\ channel[2] = [job |-> j, kind |-> "partial", seq |-> 2]

(* ------------------------------------------------------------------ *)
\* C11: an execution that passed the guard of a cell whose prompt variant or
\* test scenario is missing makes no provider call, receives no response,
\* creates no ModelOutput, runs no evaluation and writes no retryTime; once it
\* has ended its updates were IN_PROGRESS and then ERROR with statusCode 404
\* and the message of the missing row, and the cell shows exactly that (ERROR,
\* 404, the message, retryTime null) unless a later queueQueryModel update or
\* another execution's IN_PROGRESS update has landed on it since.
RefMissing == ~(variantFound /\ scenarioFound)

notFoundMessage == IF variantFound THEN "Scenario not found" ELSE "Prompt Variant not found"

\* job k has written IN_PROGRESS and not yet its next update
Marked(k) ==
    pc[k] \in {"findVariant", "variantMissing", "findScenario", "scenarioMissing",
               "parsePrompt", "promptInvalid"}

C11_MissingRefEnds404 ==
    \A j \in Jobs :
        (RefMissing /\ picked[j] = "PENDING") =>
            /\ nCalls[j] = 0
            /\ rlog[j] = <<>>
            /\ created[j] = 0
            /\ evals[j] = 0
            /\ \A k \in 1..Len(wlog[j]) : "retryTime" \notin DOMAIN wlog[j][k]
            /\ pc[j] = "done" =>
                  /\ wlog[j] = << [retrievalStatus |-> "IN_PROGRESS"],
                                  [statusCode |-> Some(404),
                                   errorMessage |-> Some(notFoundMessage),
                                   retrievalStatus |-> "ERROR"] >>
                  /\ cell.statusCode = Some(404)
                  /\ cell.retryTime = NULL
                  /\ (cell.errorMessage # NULL /\ \A k \in Jobs : ~Marked(k)) =>
                        cell = [retrievalStatus |-> "ERROR", statusCode |-> Some(404),
                                errorMessage |-> Some(notFoundMessage),
                                retryTime |-> NULL]

\* the scenario was missing: the execution ended and left the cell in ERROR, 404
C11_Witness ==
    \E j \in Jobs :
        /\ variantFound /\ ~scenarioFound
        /\ picked[j] = "PENDING" /\ pc[j] = "done"
        /\ cell = [retrievalStatus |-> "ERROR", statusCode |-> Some(404),
                   errorMessage |-> Some("Scenario not found"), retryTime |-> NULL]

(* ------------------------------------------------------------------ *)
\* C12: an execution that passed the guard of a cell whose variant and scenario
\* exist and whose prompt construction yields an error makes no provider call
\* at any time (so it never retries), creates no ModelOutput and writes no
\* retryTime; once it has ended its updates were IN_PROGRESS and then ERROR
\* with statusCode 400 and the construction error as errorMessage, and the
\* cell shows exactly that unless a later queueQueryModel update or another
\* execution's IN_PROGRESS update has landed on it since.
C12_PromptErrorEnds400 ==
    \A j \in Jobs :
        (~RefMissing /\ promptError /\ picked[j] = "PENDING") =>
            /\ nCalls[j] = 0
            /\ rlog[j] = <<>>
            /\ created[j] = 0
            /\ pc[j] \notin {"getCompletion", "updateError", "sleep"}
            /\ \A k \in 1..Len(wlog[j]) : "retryTime" \notin DOMAIN wlog[j][k]
            /\ pc[j] = "done" =>
                  /\ wlog[j] = << [retrievalStatus |-> "IN_PROGRESS"],
                                  [statusCode |-> Some(400),
                                   errorMessage |-> Some(constructionError),
                                   retrievalStatus |-> "ERROR"] >>
                  /\ cell.statusCode = Some(400)
                  /\ cell.retryTime = NULL
                  /\ (cell.errorMessage # NULL /\ \A k \in Jobs : ~Marked(k)) =>
                        cell = [retrievalStatus |-> "ERROR", statusCode |-> Some(400),
                                errorMessage |-> Some(constructionError),
                                retryTime |-> NULL]

\* the construction failed: the execution ended and left the cell in ERROR, 400
C12_Witness ==
    \E j \in Jobs :
        /\ variantFound /\ scenarioFound /\ promptError
        /\ picked[j] = "PENDING" /\ pc[j] = "done"
        /\ cell = [retrievalStatus |-> "ERROR", statusCode |-> Some(400),
                   errorMessage |-> Some(constructionError), retryTime |-> NULL]

(* ------------------------------------------------------------------ *)
\* C13: when processEntry calls the model, a rejection by an APIError with
\* status 429 yields status PENDING (never ERROR) with an error message; every
\* other failure (an APIError with another status, an error that is no
\* APIError whatever its status, a completion with no choice or with a choice
\* without message) yields status ERROR with an error message; a completion
\* with a message yields PROCESSED with that message as output.
HasErrorMessage(r) ==
    /\ "error" \in DOMAIN r
    /\ r.error \in ErrorTexts \cup {"Rate limited", "Unknown error", "No completion returned"}

RateLimitSignal(outcome) ==
    /\ outcome.kind = "rejects"
    /\ outcome.error.isAPIError
    /\ outcome.error.status = Some(429)

CompletionWithMessage(outcome) ==
    /\ outcome.kind = "completion"
    /\ outcome.choices # <<>>
    /\ outcome.choices[1].message # NULL

C13_RelabelOutcomes ==
    (peResult # NULL /\ peResult[1].called) =>
        LET outcome == peArgs[1].outcome
            r == peResult[1].result
        IN  /\ RateLimitSignal(outcome) =>
                  r.status = "PENDING" /\ HasErrorMessage(r)
            /\ CompletionWithMessage(outcome) =>
                  /\ r.status = "PROCESSED"
                  /\ r.output = outcome.choices[1].message
                  /\ "error" \notin DOMAIN r
            /\ (~RateLimitSignal(outcome) /\ ~CompletionWithMessage(outcome)) =>
                  r.status = "ERROR" /\ HasErrorMessage(r)

\* the model rejected with an APIError 429 that carried no message of its own
C13_Witness ==
    /\ peArgs # NULL
    /\ peArgs[1].relabelLLM = "gpt-4"
    /\ peArgs[1].outcome =
          [kind |-> "rejects",
           error |-> [isAPIError |-> TRUE, status |-> Some(429), message |-> NULL]]
    /\ peResult = Some([result |-> [status |-> "PENDING", error |-> "Rate limited"],
                        called |-> TRUE])

(* ------------------------------------------------------------------ *)
\* C16: updateCached(node), for a node whose kind declares cache-match and
\* cache-write fields, changes exactly the entries that belong to the node,
\* are PENDING and have a cache record keyed by the node's hash or id that
\* agrees with the entry on every declared cache-match field: each of them
\* becomes PROCESSED with the declared cache-write fields copied from one such
\* record, its node, persistentId and undeclared columns as they were; every
\* other entry and every cache record is left as it was. (A kind that declares
\* no fields has no entry changed.)
MatchColumn(f) ==
    CASE f = "nodeEntryPersistentId" -> "persistentId"
      [] f = "incomingInputHash" -> "inputHash"
      [] f = "incomingOutputHash" -> "outputHash"

WriteColumn(f) ==
    CASE f = "outgoingInputHash" -> "inputHash"
      [] f = "outgoingOutputHash" -> "outputHash"
      [] f = "outgoingSplit" -> "split"

Declares(type) ==
    /\ nodePropertiesByType(type).cacheMatchFields # NULL
    /\ nodePropertiesByType(type).cacheWriteFields # NULL

\* the records of the call keyed by the node's hash or id that agree with row
\* ne on every cache-match field the node's kind declares
MatchingRecords(call, ne) ==
    {c \in call.cache :
        /\ (c.nodeHash = Some(call.node.hash) \/ c.nodeId = Some(call.node.id))
        /\ \A f \in nodePropertiesByType(call.node.type).cacheMatchFields[1] :
              ne[MatchColumn(f)] = c[f]}

\* row ne was due a cache hit in the call
CacheHit(call, ne) ==
    /\ Declares(call.node.type)
    /\ ne.nodeId = call.node.id
    /\ ne.status = "PENDING"
    /\ MatchingRecords(call, ne) # {}

\* row `after` is row `before` made PROCESSED from record c
CopiedFrom(call, before, after, c) ==
    LET writes == nodePropertiesByType(call.node.type).cacheWriteFields[1] IN
    /\ after.status = "PROCESSED"
    /\ after.nodeId = before.nodeId
    /\ after.persistentId = before.persistentId
    /\ \A f \in AllWriteFields :
          after[WriteColumn(f)] = IF f \in writes THEN c[f] ELSE before[WriteColumn(f)]

C16_UpdateCachedFrame ==
    ucCall # NULL =>
        LET call == ucCall[1] IN
        /\ cache = call.cache
        /\ \A e \in DOMAIN entries :
              IF CacheHit(call, call.entries[e])
              THEN \E c \in MatchingRecords(call, call.entries[e]) :
                      CopiedFrom(call, call.entries[e], entries[e], c)
              ELSE entries[e] = call.entries[e]

\* of two PENDING entries of an LLM relabel node, the one with a record for its
\* input hash became PROCESSED with the record's output hash, the other stayed
C16_Witness ==
    /\ ucCall # NULL
    /\ ucCall[1].node.type = "LLMRelabel"
    /\ \E e, f \in DOMAIN entries :
          /\ ucCall[1].entries[e].nodeId = ucCall[1].node.id
          /\ ucCall[1].entries[e].status = "PENDING"
          /\ entries[e].status = "PROCESSED"
          /\ \E c \in cache : entries[e].outputHash = c.outgoingOutputHash
          /\ ucCall[1].entries[f].nodeId = ucCall[1].node.id
          /\ entries[f].status = "PENDING"
          /\ entries[f] = ucCall[1].entries[f]

(* ------------------------------------------------------------------ *)
\* C17: a cache record written under node hash h serves every node whose
\* current hash is h, whatever the node id the record carries: if the records
\* hold one with nodeHash = hash(B) that agrees with a PENDING entry of node B
\* on the declared cache-match fields, then after updateCached(B) that entry is
\* PROCESSED, written from a record of that hash or of B's id, also when the
\* record carries the id of another node A or none.
C17_ReuseAcrossNodes ==
    ucCall # NULL =>
        LET call == ucCall[1] IN
        \A e \in DOMAIN entries : \A c \in call.cache :
            (/\ Declares(call.node.type)
             /\ c.nodeHash = Some(call.node.hash)
             /\ c.nodeId # Some(call.node.id)
             /\ call.entries[e].nodeId = call.node.id
             /\ call.entries[e].status = "PENDING"
             /\ c \in MatchingRecords(call, call.entries[e])) =>
                /\ entries[e].status = "PROCESSED"
                /\ \E d \in MatchingRecords(call, call.entries[e]) :
                      CopiedFrom(call, call.entries[e], entries[e], d)

\* the only record carries hash 7 and the id of node 1; updateCached of node 2,
\* whose hash is 7, made a PENDING entry of node 2 PROCESSED from it
C17_Witness ==
    /\ ucCall # NULL
    /\ ucCall[1].node = [id |-> 2, hash |-> 7, type |-> "LLMRelabel"]
    /\ \E c \in cache :
          /\ cache = {c}
          /\ c.nodeHash = Some(7) /\ c.nodeId = Some(1)
          /\ \E e \in DOMAIN entries :
                /\ ucCall[1].entries[e].nodeId = 2
                /\ ucCall[1].entries[e].status = "PENDING"
                /\ entries[e].status = "PROCESSED"
                /\ entries[e].outputHash = c.outgoingOutputHash
                /\ entries[e].originalOutputHash = Some(ucCall[1].entries[e].outputHash)

(* ------------------------------------------------------------------ *)
\* C14: in an invocation of an LLM relabel node that the Driver read as
\* configured to skip relabeling, the beforeProcessing step makes every PENDING
\* entry of the node PROCESSED and changes nothing else of any entry: entries
\* of other nodes and entries of the node that were not PENDING stay as they
\* were; the invocation then passes no entry to processEntry and calls the
\* model for none. In an invocation of a node not configured to skip, the
\* beforeProcessing step changes no entry.
Skips(n) == drv[n].node # NULL /\ drv[n].node[1].relabelLLM = SkipRelabel

BeforeProcessingStep(n) == drv[n].pc = "before" /\ drv'[n].pc = "cache"

C14_SkipMarksProcessed ==
    /\ [](\A n \in PipeNodes : Skips(n) => (drv[n].passed = {} /\ drv[n].called = {}))
    /\ [][\A n \in PipeNodes : BeforeProcessingStep(n) =>
            \A e \in EntryIds :
                IF Skips(n) /\ entries[e].nodeId = n /\ entries[e].status = "PENDING"
                THEN entries'[e] = [entries[e] EXCEPT !.status = "PROCESSED"]
                ELSE entries'[e] = entries[e]]_vars

\* an invocation of node 1, configured to skip, has ended: it had reset the
\* node's entries, all of them are PROCESSED with the output they had, none
\* went through processEntry, and the PENDING entry of node 2 is still PENDING
C14_Witness ==
    /\ Skips(1) /\ drv[1].pc = "idle"
    /\ drv[1].reset = EntriesOf(1)
    /\ \A e \in EntriesOf(1) : entries[e].status = "PROCESSED" /\ entries[e].outputHash = "m0"
    /\ drv[1].passed = {} /\ drv[1].called = {}
    /\ \E e \in EntriesOf(2) : entries[e].status = "PENDING"

(* ------------------------------------------------------------------ *)
\* C15: within one invocation of a node no transform starts before cache
\* propagation has completed; when it completes, no entry of the node for
\* which the records hold one keyed by the node's hash or id with the entry's
\* input hash is PENDING; and no entry rewritten by the propagation of an
\* invocation is passed to processEntry in that invocation.
PropagateCacheStep(n) == drv[n].pc = "cache" /\ drv'[n].pc = "pull"

HasRecord(n, row, records) ==
    \E c \in records :
        /\ (c.nodeHash = Some(drv[n].node[1].hash) \/ c.nodeId = Some(n))
        /\ c.incomingInputHash = row.inputHash

C15_CacheBeforeTransforms ==
    /\ [](\A n \in PipeNodes :
            /\ drv[n].pc \in {"invalidate", "before", "cache"} =>
                  (drv[n].passed = {} /\ drv[n].inFlight = {} /\ drv[n].batch = {})
            /\ drv[n].passed \cap drv[n].hits = {})
    /\ [][\A n \in PipeNodes : PropagateCacheStep(n) =>
            \A e \in EntriesOf(n) :
                HasRecord(n, entries'[e], cache') => entries'[e].status # "PENDING"]_vars

\* in one invocation of node 1 the entry with input hash 1 was rewritten from
\* the record for it and the entry with input hash 2 went through processEntry
C15_Witness ==
    /\ drv[1].hits = {1} /\ drv[1].passed = {2}
    /\ entries[1].status = "PROCESSED" /\ entries[1].outputHash = "m2"
    /\ entries[1].originalOutputHash = Some("m0")
    /\ entries[2].status = "PROCESSED" /\ entries[2].outputHash = "m1"

(* ------------------------------------------------------------------ *)
\* C18: when updateRelabelingModel has given a node an option it did not have
\* (so its hash changes), the job it enqueues asks for the node's data to be
\* reset; the invocation of such a job sets every entry of the node to PENDING
\* before its beforeProcessing, its cache propagation and any transform, and
\* invokes every downstream node exactly once, not before its sweep is over,
\* and no other node.
RouterEnqueueStep == router # NULL /\ router' = NULL

InvalidateStep(n) == drv[n].pc = "invalidate" /\ drv'[n].pc = "before"

C18_ConfigChangeCascades ==
    /\ [](\A n \in PipeNodes :
            /\ router = Some(n) => nodes[n].hash = hashNode(nodes[n])
            /\ (drv[n].invalidate /\ drv[n].pc = "invalidate") =>
                  (drv[n].passed = {} /\ drv[n].hits = {} /\ drv[n].reset = {})
            /\ (drv[n].invalidate /\ drv[n].pc \notin {"idle", "invalidate"}) =>
                  (drv[n].reset = EntriesOf(n)
                     /\ \A m \in PipeNodes : drv[n].triggered[m] = 0)
            /\ (drv[n].invalidate /\ drv[n].pc = "idle") =>
                  /\ drv[n].reset = EntriesOf(n)
                  /\ \A m \in PipeNodes :
                        drv[n].triggered[m] = IF m \in Downstream(n) THEN 1 ELSE 0)
    /\ [][/\ RouterEnqueueStep =>
               (queued'[router[1]] # NULL /\ queued'[router[1]][1].invalidateData)
          /\ \A n \in PipeNodes :
               (StartNodeStep(n) /\ queued[n][1].invalidateData) =>
                   drv'[n].pc = "invalidate"
          /\ \A n \in PipeNodes : InvalidateStep(n) =>
               \A e \in EntriesOf(n) : entries'[e].status = "PENDING"]_vars

\* node 1 had processed its entries (output m1) when it was given another
\* option; the invocation that followed reset them, passed them to
\* processEntry again, where the first one failed, and once over queued the
\* job of node 2
C18_Witness ==
    /\ nodes[1].relabelLLM = "gpt-3.5"
    /\ drv[1].pc = "idle" /\ drv[1].invalidate
    /\ drv[1].node = Some(nodes[1])
    /\ drv[1].reset = EntriesOf(1) /\ drv[1].passed = EntriesOf(1)
    /\ entries[1].outputHash = "m1" /\ entries[1].status = "ERROR"
    /\ drv[1].triggered[2] = 1
    /\ queued[2] # NULL /\ drv[2].pc = "idle" /\ drv[2].node = NULL

(* ------------------------------------------------------------------ *)
\* C20: whatever the order of the requests for a node and of the Driver's
\* steps, at most one invocation of the node is under way at a time; a request
\* that meets the node in progress leaves the invocation under way as it is
\* and starts no other; and every entry of the node that was PENDING when such
\* a request arrived is later taken out of PENDING by the Driver (marked,
\* served from the cache or passed to processEntry).
C20_OneSweepPerNode ==
    /\ [](\A n \in PipeNodes : drv[n].sweeps <= 1)
    /\ [][\A n \in PipeNodes :
            (InProgress(n) /\ queued'[n] # NULL /\ queued'[n] # queued[n]) =>
                drv'[n] = drv[n]]_vars
    /\ \A e \in EntryIds : (e \in owed) ~> (e \notin owed)

\* a request met node 1 in progress: its job waits while the one invocation
\* goes on, and an entry that was PENDING then is still to be processed
C20_Witness ==
    /\ InProgress(1) /\ drv[1].sweeps = 1
    /\ queued[1] # NULL
    /\ owed \cap EntriesOf(1) # {}

(* ------------------------------------------------------------------ *)
\* C19: within one invocation of a node the transforms in flight are never
\* more than the node's maxLLMConcurrency; a read takes at most 50 PENDING
\* entries; and a read is made, and so a transform of the next batch started,
\* only when no entry of the batch before is left to dispatch or in flight.
C19_BoundedBatches ==
    /\ [](/\ sweep.inFlight <= sweep.node.maxLLMConcurrency
          /\ sweep.read <= 50
          /\ sweep.open = 0)
    /\ [][(sweep'.inFlight > sweep.inFlight) =>
             /\ sweep.pc = "sweep" /\ sweep'.batch = sweep.batch - 1
             /\ sweep'.reads = sweep.reads]_vars
    /\ [][(sweep'.reads # sweep.reads) =>
             (sweep.batch = 0 /\ sweep.inFlight = 0)]_vars

\* a full batch is under way at the node's concurrency, entries of it waiting
\* to be dispatched and more entries waiting to be read
C19_Witness ==
    /\ sweep.read = 50 /\ sweep.reads = 2
    /\ sweep.inFlight = 2 /\ sweep.node.maxLLMConcurrency = 2
    /\ sweep.batch > 0 /\ sweep.pending > 0

InLoop(j) ==
    pc[j] \in {"getCompletion", "createOutput", "markComplete", "runEvals",
               "updateError", "sleep"}

C22_ErrorAtRestHasNoRetryTime ==
    (cell.retrievalStatus = "ERROR" /\ cell.retryTime # NULL) =>
        \E j \in Jobs : InLoop(j)

(* ------------------------------------------------------------------ *)
\* C23 as stated: every step that takes the cell out of IN_PROGRESS is an
\* update by a queryModel execution that has set the cell IN_PROGRESS, and
\* takes it to COMPLETE or ERROR; queueQueryModel does not change the status
\* of an IN_PROGRESS cell.
SetInProgress(j) == wlog[j] # <<>> /\ wlog[j][1] = [retrievalStatus |-> "IN_PROGRESS"]

C23_OnlyEngineLeavesInProgress ==
    [][(cell.retrievalStatus = "IN_PROGRESS" /\ cell'.retrievalStatus # "IN_PROGRESS") =>
          /\ cell'.retrievalStatus \in {"COMPLETE", "ERROR"}
          /\ \E j \in Jobs : SetInProgress(j) /\ wlog'[j] # wlog[j]]_vars

(* ------------------------------------------------------------------ *)
\* C24: an execution that passed the guard, whatever the provider answers,
\* ends; it has then made at most 11 provider calls, all of them its own (no
\* other job was enqueued or has moved), and the cell is COMPLETE or ERROR.
PassedGuard(j) == picked[j] = "PENDING"

C24_TerminatesCompleteOrError ==
    /\ [](\A j \in Jobs :
            PassedGuard(j) =>
                /\ nCalls[j] <= MAX_AUTO_RETRIES + 1
                /\ Len(rlog[j]) <= nCalls[j]
                /\ \A k \in Jobs \ {j} : pc[k] = "none"
                /\ pc[j] = "done" => cell.retrievalStatus \in {"COMPLETE", "ERROR"})
    /\ \A j \in Jobs : PassedGuard(j) ~> (pc[j] = "done")

\* the execution ended after 11 calls that were all rate-limited
C24_Witness ==
    /\ pc[1] = "done" /\ PassedGuard(1)
    /\ nCalls[1] = 11 /\ Len(rlog[1]) = 11
    /\ cell.retrievalStatus = "ERROR" /\ cell.retryTime = NULL

(* ------------------------------------------------------------------ *)
\* C25 as stated: a job whose cell did not exist at pickup makes no provider
\* call and creates no ModelOutput, and once it is over its update with
\* ERROR, statusCode 404 and "Cell not found" has taken effect.
CellWasMissing(j) == picked[j] = "missing"

C25_MissingCellRecorded404 ==
    \A j \in Jobs :
        CellWasMissing(j) =>
            /\ nCalls[j] = 0 /\ created[j] = 0
            /\ pc[j] \in {"done", "failed"} =>
                  /\ pc[j] = "done"
                  /\ wlog[j] = <<notFoundData("Cell not found")>>

(* ------------------------------------------------------------------ *)
\* C26: while the cell is in ERROR and no execution is running for it, the
\* only step that changes it is the update of a queueQueryModel call; that
\* update sets retrievalStatus PENDING and errorMessage null and leaves
\* statusCode and retryTime as they were; and each call enqueues one job: a
\* job is enqueued once, and no more jobs than calls.
Running(j) == pc[j] \notin {"none", "queued", "done", "failed"}

QueueWriteStep(j) == ~written[j] /\ written'[j]

C26_ErrorKeptUntilRequeued ==
    /\ [][(cell.retrievalStatus = "ERROR" /\ cell' # cell
             /\ \A j \in Jobs : ~Running(j)) =>
              \E j \in Jobs : QueueWriteStep(j)]_vars
    /\ [][\A j \in Jobs :
            (QueueWriteStep(j) /\ cellExists) =>
                /\ cell'.retrievalStatus = "PENDING"
                /\ cell'.errorMessage = NULL
                /\ cell'.statusCode = cell.statusCode
                /\ cell'.retryTime = cell.retryTime]_vars
    /\ [][\A j \in Jobs : (pc'[j] = "queued" /\ pc[j] # "queued") => pc[j] = "none"]_vars
    /\ [](Cardinality({j \in Jobs : pc[j] # "none"}) <= calls)

\* the second call found the cell in ERROR 500 as the first call's execution
\* had left it: its update has landed, its job is enqueued
C26_Witness ==
    /\ pc[1] = "done" /\ rlog[1] # <<>> /\ Last(rlog[1]) = ServerError
    /\ written[2] /\ pc[2] = "queued" /\ wlog[2] = <<>>
    /\ cell = [retrievalStatus |-> "PENDING", statusCode |-> Some(500),
               errorMessage |-> NULL, retryTime |-> NULL]

(* ------------------------------------------------------------------ *)
\* C27 as stated: when queueQueryModel is called for a cell that is COMPLETE
\* or ERROR with no execution running, then, however the call's update and
\* its job interleave, later the update has landed, an execution has passed
\* the guard and the cell is COMPLETE or ERROR again.
CalledAtRest(j) ==
    /\ MayStart(j) /\ ~written[j] /\ pc[j] = "none"
    /\ cellExists /\ cell.retrievalStatus \in {"COMPLETE", "ERROR"}
    /\ \A k \in Jobs : pc[k] \in {"none", "done", "failed"}

C27_RequeuedCellIsProcessed ==
    \A j \in Jobs :
        CalledAtRest(j) ~>
            (/\ written[j]
             /\ cell.retrievalStatus \in {"COMPLETE", "ERROR"}
             /\ \E k \in Jobs : PassedGuard(k))

(* ------------------------------------------------------------------ *)
\* C28: an entry that updateCached rewrote for a kind that declares
\* outgoingOutputHash has as originalOutputHash the outputHash it had before
\* the call and as outputHash the outgoingOutputHash of a record that matched
\* it; an entry rewritten for a kind that does not declare outgoingOutputHash,
\* and every entry not rewritten, has both columns as before.
WritesOutputHash(type) ==
    /\ Declares(type)
    /\ "outgoingOutputHash" \in nodePropertiesByType(type).cacheWriteFields[1]

C28_OriginalOutputHashKept ==
    ucCall # NULL =>
        LET call == ucCall[1] IN
        \A e \in DOMAIN entries :
            LET before == call.entries[e]
                after == entries[e]
            IN  IF after # before /\ WritesOutputHash(call.node.type)
                THEN /\ after.originalOutputHash = Some(before.outputHash)
                     /\ \E c \in MatchingRecords(call, before) :
                           after.outputHash = c.outgoingOutputHash
                ELSE /\ after.outputHash = before.outputHash
                     /\ after.originalOutputHash = before.originalOutputHash

\* an entry of an LLM relabel node was rewritten: its outputHash is the
\* record's, its originalOutputHash the one it had
C28_Witness ==
    /\ ucCall # NULL
    /\ \E e \in DOMAIN entries :
          /\ entries[e].status = "PROCESSED" /\ ucCall[1].entries[e].status = "PENDING"
          /\ ucCall[1].node.type = "LLMRelabel"
          /\ entries[e].outputHash # ucCall[1].entries[e].outputHash
          /\ entries[e].originalOutputHash = Some(ucCall[1].entries[e].outputHash)

(* ------------------------------------------------------------------ *)
\* C29 as stated: every entry that updateCached(node) made PROCESSED was
\* written from a record whose nodeHash is the node's current hash; a record
\* with another nodeHash, or none, that carries the node's id (written under
\* an earlier configuration of the node) is not used.
MadeProcessed(call, e) ==
    call.entries[e].status = "PENDING" /\ entries[e].status = "PROCESSED"

C29_OnlyCurrentHashReused ==
    ucCall # NULL =>
        LET call == ucCall[1] IN
        \A e \in DOMAIN entries :
            MadeProcessed(call, e) =>
                \E c \in MatchingRecords(call, call.entries[e]) :
                    /\ c.nodeHash = Some(call.node.hash)
                    /\ CopiedFrom(call, call.entries[e], entries[e], c)

(* ------------------------------------------------------------------ *)
\* C30: an entry of an LLM relabel node that is in ERROR is the same, in
\* every column, after beforeProcessing (with or without the skip option) and
\* after updateCached, whatever cache records there are.
C30_ErrorEntriesStay ==
    ucCall # NULL =>
        \A e \in DOMAIN entries :
            ucCall[1].entries[e].status = "ERROR" => entries[e] = ucCall[1].entries[e]

\* a node that skips relabeling: beforeProcessing and updateCached are over,
\* its ERROR entry is as it was although a record of the node's hash matches
\* it; its PENDING entry has been marked PROCESSED
C30_Witness ==
    /\ ucCall # NULL /\ ucCall[1].step = "updateCached"
    /\ ucCall[1].node.relabelLLM = SkipRelabel
    /\ \E e, f \in DOMAIN entries :
          /\ entries[e].status = "ERROR" /\ entries[e].nodeId = ucCall[1].node.id
          /\ \E c \in cache :
                /\ c.nodeHash = Some(ucCall[1].node.hash)
                /\ c.incomingInputHash = entries[e].inputHash
          /\ ucCall[1].entries[f].status = "PENDING" /\ entries[f].status = "PROCESSED"
          /\ entries[f].nodeId = ucCall[1].node.id

(* ------------------------------------------------------------------ *)
\* C31: a call of updateRelabelingModel for an id without a node, for a node
\* that is not an LLM relabel node or with the option the node already has
\* updates no node and enqueues no processNode job; any other call first
\* stores the new option in the node and nothing else, and only then, in a
\* step of its own that changes no node, enqueues one processNode job for
\* just that node with invalidateData = true; the enqueue always follows.
NoStepsTaken(id, relabelOption) ==
    \/ id \notin PipeNodes
    \/ nodes[id].relabelLLM = relabelOption

RECURSIVE linesOf(_)
linesOf(blob) ==
    LET newlineIndex == indexOf(blob, LF) IN
    IF newlineIndex # 0
    THEN <<utf8(SubSeq(blob, 1, newlineIndex - 1))>>
            \o linesOf(SubSeq(blob, newlineIndex + 1, Len(blob)))
    ELSE IF blob = <<>> THEN <<>> ELSE <<utf8(blob)>>

Resolved == reader.settled # NULL /\ reader.settled[1].how = "resolved"

C32_ResolvedListIsFinal ==
    /\ [](Resolved =>
            /\ Len(reader.lines) <= reader.maxEntriesToImport
            /\ Len(reader.lines) <= Len(linesOf(reader.input))
            /\ \A k \in 1..Len(reader.lines) : reader.lines[k] = linesOf(reader.input)[k])
    /\ [][Resolved => reader.lines' = reader.lines]_vars

(* ------------------------------------------------------------------ *)
\* C33: once the multipart upload was initiated, completeMultipartUpload is
\* requested only when the PUT of every part was answered ok with an ETag,
\* and with the parts 1..N in ascending order, each with its ETag; and when
\* the function ends with an error after the initiation (of a presigned URL
\* request, a PUT, a missing ETag or the completion), abortMultipartUpload
\* was requested and the error thrown is the one that occurred.
Requested(call) == {k \in 1..Len(upload.requests) : upload.requests[k].call = call}

C33_CompleteOrAbort ==
    /\ \A r \in Requested("complete") :
          /\ \A k \in Parts(upload) :
                upload.partUploadPromises[k].settled = "fulfilled"
                   /\ upload.partUploadPromises[k].etag # NULL
          /\ upload.requests[r].parts =
                [k \in Parts(upload) |-> [ETag |-> <<"etag", k>>, PartNumber |-> k]]
    /\ (upload.uploadId # NULL /\ upload.result # NULL
           /\ "thrown" \in DOMAIN upload.result[1]) =>
          /\ Requested("abort") # {}
          /\ upload.result[1].thrown = upload.error[1]

(* ------------------------------------------------------------------ *)
\* C34: when no replaceVariant call is under way, every uiId that successful
\* calls were made for, overlapping or not, has exactly one visible variant,
\* the one created by the call that was the last of them to hide the others;
\* and a call whose constructFn was rejected has created no variant, hidden
\* none and created no cell.
Quiet == \A c \in Replaces : variants.calls[c].pc \in {"none", "thrown", "userError", "ok"}

Succeeded34(uiId) ==
    {c \in Replaces : variants.calls[c].pc = "ok" /\ variants.calls[c].uiId = uiId}

Visible(uiId) ==
    {k \in DOMAIN variants.rows : variants.rows[k].uiId = uiId /\ variants.rows[k].visible}

LastToHide(uiId) ==
    LET at == {k \in DOMAIN variants.hides : variants.hides[k] \in Succeeded34(uiId)} IN
    variants.hides[CHOOSE k \in at : \A l \in at : l <= k]

C34_OneVisibleVariant ==
    /\ Quiet =>
          \A uiId \in {"a", "b"} :
             Succeeded34(uiId) # {} =>
                Visible(uiId) = {variants.calls[LastToHide(uiId)].newVariant[1]}
    /\ \A c \in Replaces :
          variants.calls[c].pc = "userError" =>
             /\ variants.calls[c].newVariant = NULL
             /\ variants.calls[c].hid = {}
             /\ \A k \in DOMAIN variants.rows : variants.rows[k].createdBy # c
             /\ \A cl \in variants.cells : variants.rows[cl[1]].createdBy # c
====
